---- MODULE Spec2Model ----
(***************************************************************************)
(* redfetch: the synchronisation and download pipeline.                    *)
(*                                                                         *)
(*   special.py   the special-resource resolver (pure)                     *)
(*   store.py     the SQLite cache: downloads rows and metadata            *)
(*   sync.py      the orchestrator: fetch, ingest transaction, download    *)
(*                stage, version-update batch                              *)
(*   download.py  one file download: temp file, hash, atomic rename        *)
(*   net.py       the HTTP client: connection limits, retried requests,    *)
(*                the manifest caches                                      *)
(*   api.py       the paged listings of watched and licensed resources     *)
(*                                                                         *)
(* A row of the downloads table keeps the columns the pipeline decides on  *)
(* (resource_id, parent_id, version_remote, version_local and the three    *)
(* flags, and the file hash); title, filename, url and category_id are     *)
(* overwritten by the same upsert as version_remote and are not read by    *)
(* any decision modelled here.                                             *)
(***************************************************************************)
EXTENDS Integers, FiniteSets, Sequences, TLC

\* ------------------------------------------------------------------ bounds
\* How often the remote side publishes a new file of a resource.
MaxBumps == 1
\* How many operations (the fetch of a payload, the download of a task, the
\* version-update batch) are hit by a fault.
MaxFaults == 1
\* How many changes (a new remote file, an edit of the settings, a reset)
\* happen between the runs.
MaxChanges == 1
\* How many times run_sync is called.
MaxRuns == 2
\* How many members an archive has.
MaxEntries == 3
\* How many entries the license listing has.
MaxLicenses == 2
\* How many pages a watched or license listing has.
MaxPages == 3

\* --------------------------------------------------------------- constants
\* The resources of tests/test_special_resources_e2e.py.
R151 == 151
R153 == 153
R1865 == 1865
Ids == {R151, R153, R1865}

\* Optional[...] = None (models.py: parent_resource_id, sync.py: parent_id).
None == -1

\* stop_after_attempt(3) of download_file_async.
MAX_ATTEMPTS == 3

VARIABLES
    special_resources,  \* config: SPECIAL_RESOURCES of the active environment
    remote_version,     \* remote: resource id -> id of its current file
    last_update,        \* remote manifest: resource id -> last_update
    now,                \* the clock (strftime('%s','now'))
    rgwatched,          \* remote: the ids /api/rgwatched lists
    licenses,           \* remote: the ids /api/user-licenses lists as active
    ENV,                \* config: the active environment
    downloads,          \* store: the rows of the downloads table
    last_fetch_time,    \* store: metadata.last_fetch_time
    files,              \* disk: final path of a task -> "absent" | "whole",
                        \* as written by the current run
    tmpfiles,           \* disk: temp files created by the current run
    pc,                 \* where run_sync is
    resource_ids,       \* run_sync's argument: [full, ids]
    fetched_data,       \* what _fetch_from_api_async returned
    txn,                \* rows as seen inside the open transaction
    tasks,              \* the DownloadTask queue of the run
    dl,                 \* per queued task: [st, attempt]
    download_results,   \* (resource_id, "downloaded"|"error"|"skipped")
    pending_updates,    \* the version updates collected by _download_one
    ret,                \* what run_sync returned
    faults,             \* operations hit by a fault so far
    runs,               \* calls of run_sync so far
    changes,            \* changes between the runs so far
    obs,                \* observations of the current and the previous run
    unzip,              \* one extraction of an archive: its members, the
                        \* mode, the protected names, the disk
    pool,               \* the connection pool of the download stage's client
    request,            \* one call of net.get_json: its attempts and its end
    net,                \* the manifest caches of net.py and the clock they expire by
    events,             \* the callback given to run_sync and the events it received
    schema              \* the schema of the store and the calls of initialize_db under way

vars == <<special_resources, remote_version, last_update, now, rgwatched,
          licenses, ENV, downloads, last_fetch_time, files, tmpfiles, pc, resource_ids,
          fetched_data, txn, tasks, dl, download_results, pending_updates,
          ret, faults, runs, changes, obs, unzip, pool, request,
          net,
          events,
          schema>>

\* The state beside the pipeline and the extraction.
sideVars == <<pool, request, net, events, schema>>
besidePool == <<request, net, events, schema>>
besideRequest == <<pool, net, events, schema>>
besideNet == <<pool, request, events, schema>>
besideEvents == <<pool, request, net, schema>>
besideSchema == <<pool, request, net, events>>

\* The state of the pipeline.
pipeline == <<special_resources, remote_version, last_update, now, rgwatched,
              licenses, ENV, downloads, last_fetch_time, files, tmpfiles, pc,
              resource_ids, fetched_data, txn, tasks, dl, download_results,
              pending_updates, ret, faults, runs, changes, obs>>

\* ------------------------------------------------------------- special.py
NoDependencies == [d \in {} |-> [opt_in |-> TRUE]]

Dependencies151 == [d \in {R153, R1865} |-> [opt_in |-> TRUE]]

\* The SPECIAL_RESOURCES maps of the tests (mock_settings_151_only,
\* mock_settings_151_and_153) and the two with 151 opted out.
SpecialResources(o151, o153) ==
    [r \in Ids |->
        IF r = R151
        THEN [opt_in |-> o151, dependencies |-> Dependencies151]
        ELSE [opt_in |-> (r = R153 /\ o153), dependencies |-> NoDependencies]]

Configs == {SpecialResources(a, b) : a \in BOOLEAN, b \in BOOLEAN}

opted_in_specials(sr) == {p \in DOMAIN sr : sr[p].opt_in}

OptedInDependencies(sr, p) ==
    {d \in DOMAIN sr[p].dependencies : sr[p].dependencies[d].opt_in}

dependency_parents_any(sr, d) ==
    {p \in DOMAIN sr : d \in OptedInDependencies(sr, p)}

dependency_parents(sr, d) ==
    {p \in opted_in_specials(sr) : d \in OptedInDependencies(sr, p)}

candidate_ids_given(sr, rids) ==
    IF rids.full
    THEN opted_in_specials(sr)
         \cup {d \in Ids : dependency_parents(sr, d) # {}}
    ELSE rids.ids

candidate_ids(sr, rids) ==
    IF rids.full
    THEN opted_in_specials(sr)
         \cup {d \in Ids : dependency_parents(sr, d) # {}}
    ELSE rids.ids
         \cup UNION {OptedInDependencies(sr, r) :
                        r \in {x \in rids.ids : x \in DOMAIN sr /\ sr[x].opt_in}}

compute_special_status(sr, rids) ==
    [rid \in candidate_ids(sr, rids) |->
        [is_special    |-> rid \in opted_in_specials(sr),
         is_dependency |-> dependency_parents(sr, rid) # {},
         parent_ids    |-> dependency_parents(sr, rid)]]

\* --------------------------------------------------------------- models.py
needs_download(task) ==
    task.local_version = None \/ task.local_version < task.remote_version

is_dependency(task) == task.parent_resource_id # None

\* ---------------------------------------------------------------- store.py
RowKey(r) == <<r.resource_id, r.parent_id>>

HasRow(db, rid, pid) ==
    \E r \in db : r.resource_id = rid /\ r.parent_id = pid

RowAt(db, rid, pid) ==
    CHOOSE r \in db : r.resource_id = rid /\ r.parent_id = pid

\* INSERT ... ON CONFLICT(resource_id, parent_id) DO UPDATE SET every column
\* but version_local; a new row takes the column default version_local = 0.
insert_prepared_resource_mut(db, resource, is_special, is_dep, parent_id, license_active) ==
    LET parent == IF is_dep /\ parent_id # None THEN parent_id ELSE 0
        new == [resource_id    |-> resource.resource_id,
                parent_id      |-> parent,
                version_remote |-> resource.version,
                version_local  |-> resource.version,
                file_hash      |-> resource.hash,
                is_special     |-> is_special /\ ~is_dep,
                is_watching    |-> resource.is_watching,
                is_licensed    |-> resource.is_licensed \/ license_active]
    IN  {r \in db : RowKey(r) # RowKey(new)} \cup {new}

insert_prepared_resource(db, resource, is_special, is_dep, parent_id, license_active) ==
    LET parent == IF is_dep /\ parent_id # None THEN parent_id ELSE 0
        new == [resource_id    |-> resource.resource_id,
                parent_id      |-> parent,
                version_remote |-> resource.version,
                version_local  |-> 0,
                file_hash      |-> resource.hash,
                is_special     |-> is_special /\ ~is_dep,
                is_watching    |-> resource.is_watching,
                is_licensed    |-> resource.is_licensed \/ license_active]
    IN  IF \E r \in db : RowKey(r) = RowKey(new)
        THEN {IF RowKey(r) = RowKey(new)
              THEN [new EXCEPT !.version_local = r.version_local]
              ELSE r : r \in db}
        ELSE db \cup {new}

has_root_download_row_for_resource(db, rid) == HasRow(db, rid, 0)

has_dependency_rows(db, rid, parent_ids) ==
    IF parent_ids = {}
    THEN FALSE
    ELSE Cardinality({r \in db : r.resource_id = rid /\ r.parent_id \in parent_ids})
            >= Cardinality(parent_ids)

\* current_ids holds (None, rid) for a root and (parent, rid) for a dependency.
clean_up_unnecessary_resources(db, current_ids) ==
    LET rids  == {c[2] : c \in {x \in current_ids : x[1] = None}}
        pids  == {c[1] : c \in {x \in current_ids : x[1] # None}}
        all   == rids \cup pids
        pairs == {c \in current_ids : c[1] # None}
        unwatched == IF all = {} THEN db
                     ELSE {IF r.parent_id = 0 /\ r.resource_id \notin all
                           THEN [r EXCEPT !.is_watching = FALSE]
                           ELSE r : r \in db}
        roots == IF all = {} THEN unwatched
                 ELSE {r \in unwatched :
                         ~(r.parent_id = 0 /\ r.resource_id \notin all
                           /\ (r.is_licensed \/ r.is_special))}
    IN  IF pairs = {} THEN roots
        ELSE {r \in roots :
                ~(r.parent_id # 0 /\ <<r.parent_id, r.resource_id>> \notin pairs)}

\* map_rows_to_download_tasks: a root row selects NULL as parent_resource_id.
RootTask(r) ==
    [resource_id        |-> r.resource_id,
     parent_resource_id |-> None,
     remote_version     |-> r.version_remote,
     local_version      |-> r.version_local,
     file_hash          |-> r.file_hash]

DepTask(r) ==
    [resource_id        |-> r.resource_id,
     parent_resource_id |-> r.parent_id,
     remote_version     |-> r.version_remote,
     local_version      |-> r.version_local,
     file_hash          |-> r.file_hash]

\* d JOIN p ON p.resource_id = d.parent_id AND p.parent_id = 0
JoinedDeps_all(db) == {d \in db : d.parent_id # 0}

JoinedDeps(db) ==
    {d \in db : d.parent_id # 0 /\ HasRow(db, d.parent_id, 0)}

fetch_watched_db_resources(db) ==
    LET roots == {r \in db : r.parent_id = 0
                    /\ (r.is_watching \/ r.is_special \/ r.is_licensed)}
        deps  == JoinedDeps(db)
    IN  IF roots # {} \/ deps # {}
        THEN {RootTask(r) : r \in roots} \cup {DepTask(d) : d \in deps}
        ELSE {RootTask(r) : r \in {x \in db : x.parent_id = 0}}
             \cup {DepTask(d) : d \in deps}

fetch_single_db_resource_roots(db, rid) ==
    {RootTask(r) : r \in {x \in db : x.parent_id = 0 /\ x.resource_id = rid}}

fetch_single_db_resource(db, rid) ==
    {RootTask(r) : r \in {x \in db : x.parent_id = 0 /\ x.resource_id = rid}}
    \cup {DepTask(d) : d \in {x \in JoinedDeps(db) : x.parent_id = rid}}

\* One UPDATE of apply_updates: u = (resource_id, remote_version,
\* is_dependency, parent_resource_id).
ApplyOne(db, u) ==
    LET pid == IF u[3] /\ u[4] # None THEN u[4] ELSE 0
    IN  {IF r.resource_id = u[1] /\ r.parent_id = pid
         THEN [r EXCEPT !.version_local = u[2]]
         ELSE r : r \in db}

RECURSIVE ApplyAll(_, _)
ApplyAll(db, updates) ==
    IF updates = {} THEN db
    ELSE LET u == CHOOSE x \in updates : TRUE
         IN  ApplyAll(ApplyOne(db, u), updates \ {u})

reset_download_dates_rows_roots(db) ==
    {IF r.parent_id = 0 THEN [r EXCEPT !.version_local = 0] ELSE r : r \in db}

reset_download_dates_rows(db) == {[r EXCEPT !.version_local = 0] : r \in db}

reset_download_date_for_resource(db, rid) ==
    {IF r.resource_id = rid \/ r.parent_id = rid
     THEN [r EXCEPT !.version_local = 0]
     ELSE r : r \in db}

\* ------------------------------------------------------------------- api.py
\* A paged listing on the remote side is the sequence of its pages, each the
\* sequence of its downloadable items; `failed` are the pages whose request
\* raises.
\* fetch_watched_page: (items, last_page), or ([], 0) on an error.
fetch_watched_page(pages, failed, page) ==
    IF page \in failed
    THEN [items |-> <<>>, last_page |-> 0]
    ELSE [items |-> pages[page], last_page |-> Len(pages)]

\* "for page_items, _ in page_results: items.extend(page_items)", for the
\* pages from `page` to total_pages.
RECURSIVE extend(_, _, _, _, _)
extend(items, pages, failed, page, total_pages) ==
    IF page > total_pages THEN items
    ELSE extend(items \o fetch_watched_page(pages, failed, page).items,
                pages, failed, page + 1, total_pages)

\* fetch_watched_resources; fetch_licenses_page and fetch_licenses are the
\* same code over /api/user-licenses.
fetch_watched_resources(pages, failed) ==
    LET first == fetch_watched_page(pages, failed, 1)
    IN  IF first.last_page <= 1 THEN first.items
        ELSE extend(first.items, pages, failed, 2, first.last_page)

fetch_licenses(pages, failed) == fetch_watched_resources(pages, failed)

\* The pages whose request fails, within the fault bound.
FailedPages(pages) ==
    {F \in SUBSET DOMAIN pages : Cardinality(F) <= MaxFaults}

NoListing == [kind |-> "none", pages |-> <<>>, failed |-> {}, items |-> <<>>]

\* ------------------------------------------------------------------ sync.py
\* config.CATEGORY_MAP and the parent category of the test resources.
CATEGORY_MAP == {8, 11, 25}
PluginsCategory == 11
GatedEnvs == {"TEST", "EMU"}

\* A hash string: its hex digits, whether letters are upper case, whether it
\* is wrapped in whitespace, and whether it has 32 hex digits.
Hash(hex, upper, padded, len32) ==
    [hex |-> hex, upper |-> upper, padded |-> padded, len32 |-> len32]

strip(h) == [h EXCEPT !.padded = FALSE]

lower(h) == [h EXCEPT !.upper = FALSE]

\* current_files[0].hash as the API sends it: upper case and padded for 151,
\* not an MD5 for 153 (as in the test payloads), plain for 1865.
RawHash(rid) ==
    IF rid = R151 THEN Hash("ab", TRUE, TRUE, TRUE)
    ELSE IF rid = R153 THEN Hash("cd", FALSE, FALSE, FALSE)
    ELSE Hash("cd", FALSE, FALSE, TRUE)

\* hashlib's hexdigest of a body: 32 lower-case hex digits.
Digests == {Hash(x, FALSE, FALSE, TRUE) : x \in {"ab", "cd"}}

\* What GET /api/resources/{id} answers now.
Payload(rid) ==
    [resource_id |-> rid, version |-> remote_version[rid],
     category_id |-> PluginsCategory, hash |-> RawHash(rid)]

\* None as a file hash (no hash check).
NoHash == Hash("", FALSE, FALSE, FALSE)

\* resource_from_api_payload: strip, lower, and keep only a 32-digit MD5.
sanitized_hash(raw_hash) ==
    LET cleaned == lower(strip(raw_hash))
    IN  IF cleaned.len32 THEN cleaned ELSE NoHash

resource_from_api_payload(payload, watching, special, licensed) ==
    [resource_id |-> payload.resource_id,
     version     |-> payload.version,
     category_id |-> payload.category_id,
     hash        |-> sanitized_hash(payload.hash),
     is_watching |-> watching,
     is_special  |-> special,
     is_licensed |-> licensed]

\* "if parent_category_id == 11 and current_env in ['TEST', 'EMU']: continue"
Gated_never(payload, env) == FALSE

Gated(payload, env) == payload.category_id = PluginsCategory /\ env \in GatedEnvs

\* One entry of /api/user-licenses: the license and the resource it is for.
License(license_id, active, payload) ==
    [license_id |-> license_id, active |-> active, resource |-> payload]

\* The store and what the pass has returned and called so far.
PassStart(db) == [rows |-> db, current_ids |-> {}, inserted |-> <<>>]

RECURSIVE _process_resources(_, _, _)
_process_resources(db, resources, env) ==
    IF resources = {} THEN db
    ELSE LET p == CHOOSE x \in resources : TRUE
             res == resource_from_api_payload(p, TRUE, FALSE, FALSE)
             db1 == IF ~Gated(p, env) /\ p.category_id \in CATEGORY_MAP
                    THEN insert_prepared_resource(db, res, FALSE, FALSE, None, FALSE)
                    ELSE db
         IN  _process_resources(db1, resources \ {p}, env)

\* The loop over the licenses: acc holds the rows, the current_ids collected
\* and the licenses insert_prepared_resource was called for, in call order.
RECURSIVE _process_licensed_resources(_, _, _)
_process_licensed_resources(acc, licensed, env) ==
    IF licensed = {} THEN acc
    ELSE LET license_info == CHOOSE x \in licensed : TRUE
             p == license_info.resource
             res == resource_from_api_payload(p, FALSE, FALSE, license_info.active)
             acc1 == IF Gated(p, env) THEN acc
                     ELSE IF p.category_id \in CATEGORY_MAP
                     THEN [rows |-> insert_prepared_resource(
                                        acc.rows, res, FALSE, FALSE, None,
                                        license_info.active),
                           current_ids |-> acc.current_ids \cup {<<None, p.resource_id>>},
                           inserted |-> Append(acc.inserted, license_info.license_id)]
                     ELSE acc
         IN  _process_licensed_resources(acc1, licensed \ {license_info}, env)

ListedIds(resources, env) ==
    {<<None, p.resource_id>> :
        p \in {x \in resources : ~Gated(x, env) /\ x.category_id \in CATEGORY_MAP}}

\* The inner loop of _process_special_resources: one row per parent.
RECURSIVE InsertForParents(_, _, _, _)
InsertForParents(db, res, special, parents) ==
    IF parents = {} THEN db
    ELSE LET p == CHOOSE x \in parents : TRUE
         IN  InsertForParents(
                 insert_prepared_resource(db, res, special, TRUE, p, FALSE),
                 res, special, parents \ {p})

RECURSIVE _process_special_resources(_, _, _)
_process_special_resources(db, status, data) ==
    IF data = {} THEN db
    ELSE LET p == CHOOSE x \in data : TRUE
             db1 == IF p.resource_id \notin DOMAIN status THEN db
                    ELSE LET st  == status[p.resource_id]
                             res == resource_from_api_payload(p, FALSE, st.is_special, FALSE)
                             db0 == IF st.is_special
                                    THEN insert_prepared_resource(db, res, st.is_special, FALSE, None, FALSE)
                                    ELSE db
                         IN  InsertForParents(db0, res, st.is_special, st.parent_ids)
         IN  _process_special_resources(db1, status, data \ {p})

SpecialCurrentIds(status) ==
    {<<None, rid>> : rid \in {x \in DOMAIN status : status[x].is_special}}
    \cup UNION {{<<p, rid>> : p \in status[rid].parent_ids} : rid \in DOMAIN status}

\* Rows after the three upsert passes, and the current_ids they return.
_store_fetched_data_async(db, fd, env) ==
    _process_special_resources(
        _process_licensed_resources(
            PassStart(_process_resources(db, fd.watched_resources, env)),
            fd.licensed_resources, env).rows,
        fd.special_resource_status, fd.special_resources_data)

CurrentIds(fd, env) ==
    ListedIds(fd.watched_resources, env)
    \cup _process_licensed_resources(PassStart({}), fd.licensed_resources, env).current_ids
    \cup SpecialCurrentIds(fd.special_resource_status)

\* The manifest lists every resource with its last_update.
_filter_special_resources_async(db, lft, status, manifest) ==
    {rid \in DOMAIN status :
        \/ (rid \in DOMAIN manifest /\ manifest[rid] > lft)
        \/ ~has_root_download_row_for_resource(db, rid)}

_filter_ids_needing_fetch(db, lft, all_ids, status, manifest) ==
    {rid \in all_ids :
        LET has_db_entry ==
                IF status[rid].is_dependency
                THEN has_dependency_rows(db, rid, status[rid].parent_ids)
                ELSE has_root_download_row_for_resource(db, rid)
        IN  \/ ~has_db_entry
            \/ ~(rid \in DOMAIN manifest /\ manifest[rid] <= lft)}

\* The ids whose payload the run asks the API for.
IdsToFetch(db, lft, sr, rids, manifest) ==
    LET status == compute_special_status(sr, rids)
    IN  IF rids.full
        THEN _filter_special_resources_async(db, lft, status, manifest)
        ELSE _filter_ids_needing_fetch(db, lft, DOMAIN status, status, manifest)

\* _fetch_full_sync_data / _fetch_partial_sync_data, for the payloads `got`
\* that fetch_resources_batch returned.
FetchedData(sr, rids, watched, licensed, got) ==
    LET status == compute_special_status(sr, rids)
        special_ids_set == {rid \in DOMAIN status :
                               status[rid].is_special \/ status[rid].is_dependency}
    IN  IF rids.full
        THEN [watched_resources       |-> watched,
              licensed_resources      |-> licensed,
              special_resource_status |-> status,
              special_resources_data  |-> got]
        ELSE [watched_resources       |-> {p \in got : p.resource_id \notin special_ids_set},
              licensed_resources      |-> {},
              special_resource_status |-> status,
              special_resources_data  |-> {p \in got : p.resource_id \in special_ids_set}]

\* sync(): the queue read inside the transaction.
QueueOf(db, rids) ==
    IF rids.full
    THEN fetch_watched_db_resources(db)
    ELSE UNION {fetch_single_db_resource(db, rid) : rid \in rids.ids}

\* The end of sync(): false when a task errored, true otherwise.
SyncResult_mut(results) == "true"

SyncResult(results) ==
    IF \E r \in results : r[2] = "error" THEN "false" ELSE "true"

\* ROLLBACK (conn.rollback(), or closing a connection with an open
\* transaction): the committed state stays, the working state is dropped.
Rollback_keep(committed, working) == working

Rollback(committed, working) == committed

TaskKey(t) ==
    <<t.resource_id,
      IF t.parent_resource_id = None THEN 0 ELSE t.parent_resource_id>>

Keys == Ids \X ({0} \cup Ids)

\* ------------------------------------------------------------ the pipeline
NoTxn == [rows |-> {}, lft |-> 0]

NoData == [watched_resources |-> {}, licensed_resources |-> {},
           special_resource_status |-> [r \in {} |-> 0],
           special_resources_data |-> {}]

NoLoss == [keys |-> {}, scope |-> [full |-> TRUE, ids |-> {}], fresh |-> FALSE]

\* run_sync is called with None or with one id (listener.py, main.py); the
\* ids asked for are the special resources.
Targets == {R151, R153}

Scopes == {[full |-> TRUE, ids |-> {}]} \cup {[full |-> FALSE, ids |-> {r}] : r \in Targets}

\* obs: what the properties below read of a run, beside the program state.
\*   start_rows, start_lft  the store when the run started
\*   cancel_at              where the cancellation was delivered, or "none"
\*   fetch_failed           a payload fetch of the run returned nothing
\*   apply                  the version-update batch: none, committed, failed
\*   hash_failed            the tasks whose body failed the hash check, each
\*                          with the digest of the body
\*   rejected               the tasks whose archive extract_and_discard_zip
\*                          refused (integrity check, size or entry-count guard)
\*   failures               the failed download attempts: the task, the number
\*                          of the attempt and the cause ("http" for a
\*                          timeout, network error or HTTP status error,
\*                          "disk", "hash", "rename", "extract")
\*   listing                a paged listing that was fetched: which one, the
\*                          pages the remote side holds, the pages whose
\*                          fetch failed, and the items returned
\*   licensed               what the license pass returned (rows, current_ids)
\*                          and the licenses it called the upsert for
\*   good_prev              the previous run was a full sync that returned
\*                          true with every fetch answered, and neither the
\*                          remote side nor the configuration nor a reset
\*                          changed anything since
\*   lost                   the version-update batch of the previous run when
\*                          it did not commit: the keys of its tasks, the
\*                          scope of that run, and whether nothing changed
\*                          since (fresh)
ObsIdle(good, lost) ==
    [start_rows |-> {}, start_lft |-> 0, cancel_at |-> "none",
     fetch_failed |-> FALSE, apply |-> "none", hash_failed |-> {},
     rejected |-> {}, failures |-> {}, licensed |-> PassStart({}),
     listing |-> NoListing,
     good_prev |-> good, lost |-> lost]

\* No archive is being extracted.
NoArchive ==
    [pc |-> "idle", infolist |-> <<>>, member |-> 1, should_flatten |-> FALSE,
     protected_files |-> {}, case_sensitive |-> TRUE,
     files |-> {}, dirs |-> {}, before |-> {}]

\* The client of the download stage is not open.
NoPool == [protocol |-> "none", connections |-> 0]

\* No call of net.get_json is under way.
NoRequest ==
    [kind |-> "none", st |-> "idle", attempt |-> 0, errors |-> {},
     result |-> "none"]

\* An empty slot of a manifest cache.
NoEntry == [body |-> "none", fetched |-> 0, expires |-> 0]

\* No manifest is cached and fetch_manifest_cached was not called: returned
\* is the manifest the last call returned, and from, held_memory and
\* held_disk tell where the call that just returned took it from and which
\* caches held an unexpired manifest when it began.
NoNet ==
    [clock |-> 0, manifest_cache |-> NoEntry, manifest_disk_cache |-> NoEntry,
     returned |-> NoEntry, from |-> "none", held_memory |-> FALSE,
     held_disk |-> FALSE]

\* Nothing beside the pipeline is under way.
\* No callback was given and no event was emitted.
NoEvents == [on_event |-> FALSE, log |-> <<>>]

\* The unified schema version marker.
SCHEMA_VERSION == 1

\* initialize_db is called by main.py and by the terminal UI.
Callers == {"main", "terminal_ui"}

\* No call of initialize_db is under way. began_current, alone, had_rows and
\* did_reset tell of a call whether the store was at the current schema
\* version when it began, whether no other call overlapped it, whether the
\* store held rows when it began, and whether it reset the schema.
NoCall ==
    [pc |-> "idle", calls |-> 0, began_current |-> FALSE, alone |-> TRUE,
     had_rows |-> FALSE, did_reset |-> FALSE]

\* A store at the current schema version: the metadata table with its row
\* and the schema_version column, and the downloads table.
CurrentSchema ==
    [metadata |-> TRUE, column |-> TRUE, version |-> SCHEMA_VERSION,
     table |-> TRUE, call |-> [p \in Callers |-> NoCall]]

SideIdle ==
    /\ pool = NoPool /\ request = NoRequest /\ net = NoNet
    /\ events = NoEvents /\ schema = CurrentSchema

\* Everything but the configuration: an idle pipeline over an empty store.
PipelineIdle ==
    /\ remote_version = [r \in Ids |-> 1]
    /\ last_update = [r \in Ids |-> 1]
    /\ now = 1
    /\ rgwatched = {}
    /\ licenses = {}
    /\ ENV = "LIVE"
    /\ downloads = {}
    /\ last_fetch_time = 0
    /\ files = [k \in Keys |-> "absent"]
    /\ tmpfiles = {}
    /\ pc = "idle"
    /\ resource_ids = [full |-> TRUE, ids |-> {}]
    /\ fetched_data = NoData
    /\ txn = NoTxn
    /\ tasks = {}
    /\ dl = [t \in {} |-> 0]
    /\ download_results = {}
    /\ pending_updates = {}
    /\ ret = "none"
    /\ faults = 0
    /\ runs = 0
    /\ changes = 0
    /\ obs = ObsIdle(FALSE, NoLoss)

PipelineInit == special_resources \in Configs /\ PipelineIdle

Init == PipelineInit /\ unzip = NoArchive /\ SideIdle

\* An idle pipeline over an empty store with no special resource opted in.
PlainInit ==
    /\ special_resources = SpecialResources(FALSE, FALSE)
    /\ PipelineIdle
    /\ unzip = NoArchive /\ SideIdle

configVars == <<special_resources, ENV>>
remoteVars == <<remote_version, last_update, now, rgwatched, licenses>>
storeVars  == <<downloads, last_fetch_time>>
diskVars   == <<files, tmpfiles>>
runVars    == <<pc, resource_ids, fetched_data, txn, tasks, dl,
                download_results, pending_updates, ret, faults, runs>>

\* A change between two runs.
Change ==
    /\ pc = "idle"
    /\ runs > 0
    /\ changes < MaxChanges
    /\ changes' = changes + 1

\* An environment change ends "nothing changed since the previous run".
Disturbed == [obs EXCEPT !.good_prev = FALSE,
                         !.lost = [@ EXCEPT !.fresh = FALSE]]

\* The remote side publishes a new file of resource r (after the first run:
\* before it, a new file is the same as a different first file).
RemoteUpdate(r) ==
    /\ Change
    /\ now < 1 + MaxBumps
    /\ remote_version' = [remote_version EXCEPT ![r] = @ + 1]
    /\ now' = now + 1
    /\ last_update' = [last_update EXCEPT ![r] = now + 1]
    /\ obs' = Disturbed
    /\ UNCHANGED <<rgwatched, licenses, configVars, storeVars, diskVars, runVars>>
    /\ UNCHANGED <<unzip, sideVars>>

\* The user edits opt_in of a special resource in the settings file.
EditOptIn(r) ==
    /\ Change
    /\ r \in {R151, R153}
    /\ special_resources' =
          [special_resources EXCEPT ![r] = [@ EXCEPT !.opt_in = ~@]]
    /\ obs' = Disturbed
    /\ UNCHANGED <<ENV, remoteVars, storeVars, diskVars, runVars>>
    /\ UNCHANGED <<unzip, sideVars>>

\* store.reset_download_dates / reset_download_dates_async
reset_download_dates ==
    /\ Change
    /\ downloads' = reset_download_dates_rows(downloads)
    /\ last_fetch_time' = 0
    /\ obs' = Disturbed
    /\ UNCHANGED <<configVars, remoteVars, diskVars, runVars>>
    /\ UNCHANGED <<unzip, sideVars>>

\* store.reset_download_dates_for_resources, for one id
reset_download_dates_for_resources(r) ==
    /\ Change
    /\ downloads' = reset_download_date_for_resource(downloads, r)
    /\ obs' = Disturbed
    /\ UNCHANGED <<last_fetch_time, configVars, remoteVars, diskVars, runVars>>
    /\ UNCHANGED <<unzip, sideVars>>

\* run_sync(db_path, headers, resource_ids): the connection is opened and the
\* catalog fetches are awaited.
run_sync(rids) ==
    /\ pc = "idle"
    /\ runs < MaxRuns
    /\ runs' = runs + 1
    /\ pc' = "fetch"
    /\ resource_ids' = rids
    /\ tmpfiles' = {}
    /\ obs' = [obs EXCEPT !.start_rows = downloads, !.start_lft = last_fetch_time]
    /\ UNCHANGED <<configVars, remoteVars, storeVars, files, fetched_data, txn,
                   tasks, dl, download_results, pending_updates, ret, faults,
                   changes>>
    /\ UNCHANGED <<unzip, sideVars>>

\* _fetch_from_api_async returns; BEGIN. fetch_single_resource answers None
\* for the ids in `failed` (an HTTP error, or a resource that is not
\* downloadable).
FetchDone ==
    /\ pc = "fetch"
    /\ LET want == IdsToFetch(downloads, last_fetch_time, special_resources,
                              resource_ids, last_update)
       IN  \E failed \in SUBSET want :
             /\ faults + Cardinality(failed) <= MaxFaults
             /\ faults' = faults + Cardinality(failed)
             /\ fetched_data' =
                   FetchedData(special_resources, resource_ids,
                               {Payload(r) : r \in rgwatched},
                               {License(r, TRUE, Payload(r)) : r \in licenses},
                               {Payload(r) : r \in want \ failed})
             /\ obs' = [obs EXCEPT !.fetch_failed = failed # {}]
    /\ pc' = "store"
    /\ txn' = [rows |-> downloads, lft |-> last_fetch_time]
    /\ UNCHANGED <<configVars, remoteVars, storeVars, diskVars, resource_ids, runs, changes,
                   tasks, dl, download_results, pending_updates, ret>>
    /\ UNCHANGED <<unzip, sideVars>>

\* The upserts of _store_fetched_data_async, inside the transaction.
StoreFetched ==
    /\ pc = "store"
    /\ txn' = [txn EXCEPT !.rows = _store_fetched_data_async(@, fetched_data, ENV)]
    /\ pc' = "queue"
    /\ UNCHANGED <<configVars, remoteVars, storeVars, diskVars, resource_ids, runs, changes,
                   fetched_data, tasks, dl, download_results, pending_updates,
                   ret, faults, obs>>
    /\ UNCHANGED <<unzip, sideVars>>

\* Full sync: clean_up_unnecessary_resources (which stamps last_fetch_time)
\* and the queue read. Targeted sync: the queue read and the stamp. Then the
\* commit is awaited.
BuildQueue ==
    /\ pc = "queue"
    /\ LET rows == IF resource_ids.full
                   THEN clean_up_unnecessary_resources(
                            txn.rows, CurrentIds(fetched_data, ENV))
                   ELSE txn.rows
       IN  /\ txn' = [rows |-> rows, lft |-> now]
           /\ tasks' = QueueOf(rows, resource_ids)
    /\ pc' = "commit"
    /\ UNCHANGED <<configVars, remoteVars, storeVars, diskVars, resource_ids, runs, changes,
                   fetched_data, dl, download_results, pending_updates, ret,
                   faults, obs>>
    /\ UNCHANGED <<unzip, sideVars>>

Skipped == {<<t.resource_id, "skipped">> : t \in {x \in tasks : ~needs_download(x)}}

\* sync(): "if resource_ids is not None and not tasks".
NoTasksFound_never(rids, found) == FALSE

NoTasksFound(rids, found) == ~rids.full /\ found = {}

\* conn.commit() returns; sync() goes on to the first await of the download
\* stage, or returns.
Commit ==
    /\ pc = "commit"
    /\ downloads' = txn.rows
    /\ last_fetch_time' = txn.lft
    /\ txn' = NoTxn
    /\ LET to_download == {t \in tasks : needs_download(t)}
       IN  IF NoTasksFound(resource_ids, tasks)
           THEN /\ ret' = "false"
                /\ pc' = "returned"
                /\ UNCHANGED <<dl, download_results>>
           ELSE IF to_download = {}
           THEN /\ download_results' = Skipped
                /\ ret' = SyncResult(Skipped)
                /\ pc' = "returned"
                /\ UNCHANGED dl
           ELSE /\ download_results' = Skipped
                /\ dl' = [t \in to_download |-> [st |-> "queued", attempt |-> 1]]
                /\ pc' = "download"
                /\ UNCHANGED ret
    /\ UNCHANGED <<configVars, remoteVars, diskVars, resource_ids, runs, changes, fetched_data,
                   tasks, pending_updates, faults, obs>>
    /\ UNCHANGED <<unzip, sideVars>>

\* ------------------------------------------------------------ download.py
\* A temp file is named by the task's final path and the attempt that
\* created it (NamedTemporaryFile draws a fresh name in the same directory).
TmpOf(t) == <<TaskKey(t), dl[t].attempt>>

InFlight_none(t) == FALSE

InFlight(t) == t \in DOMAIN dl /\ dl[t].st \in {"queued", "streaming"}

\* The finally block of download_file_async: tmp_path is the local variable
\* (the empty set for None), assigned only when _stream_to_tempfile returned.
finally_remove(tmps, tmp_path, final_exists) ==
    IF tmp_path # {} /\ ~final_exists THEN tmps \ tmp_path ELSE tmps

\* The except clause of _stream_to_tempfile: it catches Exception, which a
\* CancelledError is not.
except_remove(tmps, tmp_path, is_exception) ==
    IF is_exception THEN tmps \ tmp_path ELSE tmps

\* _download_one, after download_resource_async returned or raised.
Settle_drop(t, ok) ==
    /\ dl' = [dl EXCEPT ![t] = [@ EXCEPT !.st = IF ok THEN "downloaded" ELSE "error"]]
    /\ download_results' = download_results
          \cup {<<t.resource_id, IF ok THEN "downloaded" ELSE "error">>}
    /\ pending_updates' =
          IF ok
          THEN pending_updates
               \cup {<<t.resource_id, t.remote_version, is_dependency(t),
                       t.parent_resource_id>>}
          ELSE {}

Settle(t, ok) ==
    /\ dl' = [dl EXCEPT ![t] = [@ EXCEPT !.st = IF ok THEN "downloaded" ELSE "error"]]
    /\ download_results' = download_results
          \cup {<<t.resource_id, IF ok THEN "downloaded" ELSE "error">>}
    /\ pending_updates' =
          IF ok
          THEN pending_updates
               \cup {<<t.resource_id, t.remote_version, is_dependency(t),
                       t.parent_resource_id>>}
          ELSE pending_updates

\* tenacity: a retryable error leads to the next attempt, the third is the
\* last; download_resource_async turns the re-raised error into False.
RetryOrFail(t) ==
    IF dl[t].attempt < MAX_ATTEMPTS
    THEN /\ dl' = [dl EXCEPT ![t] = [st |-> "queued", attempt |-> @.attempt + 1]]
         /\ UNCHANGED <<download_results, pending_updates>>
    ELSE Settle(t, FALSE)

\* A fault hits the download of task t: its first fault counts, the failures
\* of its further attempts belong to the same faulty download.
Fault(t) ==
    IF dl[t].attempt > 1
    THEN UNCHANGED faults
    ELSE faults < MaxFaults /\ faults' = faults + 1

\* The attempt of task t that is under way failed with the given cause.
Failed(t, cause) == [obs EXCEPT !.failures = @ \cup {<<t, dl[t].attempt, cause>>}]

\* client.stream(...) answered 2xx, the disk has room, the temp file is open.
OpenStream(t) ==
    /\ pc = "download" /\ t \in DOMAIN dl /\ dl[t].st = "queued"
    /\ dl' = [dl EXCEPT ![t] = [@ EXCEPT !.st = "streaming"]]
    /\ tmpfiles' = tmpfiles \cup {TmpOf(t)}
    /\ UNCHANGED obs
    /\ UNCHANGED <<configVars, remoteVars, storeVars, files, pc, resource_ids, runs, changes,
                   fetched_data, txn, tasks, download_results, pending_updates,
                   ret, faults>>
    /\ UNCHANGED <<unzip, sideVars>>

\* Timeout, network error or HTTP status error before the body.
ConnectFail(t) ==
    /\ pc = "download" /\ t \in DOMAIN dl /\ dl[t].st = "queued"
    /\ Fault(t)
    /\ RetryOrFail(t)
    /\ obs' = Failed(t, "http")
    /\ UNCHANGED <<configVars, remoteVars, storeVars, diskVars, pc, resource_ids, runs, changes,
                   fetched_data, txn, tasks, ret>>
    /\ UNCHANGED <<unzip, sideVars>>

\* _ensure_disk_space raises OSError: not retried, not an httpx.HTTPError.
DiskSpaceAbort(t) ==
    /\ pc = "download" /\ t \in DOMAIN dl /\ dl[t].st = "queued"
    /\ Fault(t)
    /\ Settle(t, FALSE)
    /\ tmpfiles' = finally_remove(tmpfiles, {}, files[TaskKey(t)] # "absent")
    /\ obs' = Failed(t, "disk")
    /\ UNCHANGED <<configVars, remoteVars, storeVars, files, pc, resource_ids, runs, changes,
                   fetched_data, txn, tasks, ret>>
    /\ UNCHANGED <<unzip, sideVars>>

\* A network error while the body is streamed.
StreamFail(t) ==
    /\ pc = "download" /\ t \in DOMAIN dl /\ dl[t].st = "streaming"
    /\ Fault(t)
    /\ tmpfiles' = finally_remove(except_remove(tmpfiles, {TmpOf(t)}, TRUE), {},
                                  files[TaskKey(t)] # "absent")
    /\ RetryOrFail(t)
    /\ obs' = Failed(t, "http")
    /\ UNCHANGED <<configVars, remoteVars, storeVars, files, pc, resource_ids, runs, changes,
                   fetched_data, txn, tasks, ret>>
    /\ UNCHANGED <<unzip, sideVars>>

\* _hash_matches: the comparison of the digest with the expected hash ...
_hash_matches(actual, expected_md5) == actual = lower(strip(expected_md5))

\* ... and its removal of the temp file on a mismatch.
_hash_matches_keep(tmps, tmp_path, matched) == tmps

_hash_matches_remove(tmps, tmp_path, matched) ==
    IF matched THEN tmps ELSE tmps \ tmp_path

\* download_file_async checks the hash when one is expected.
HashOk(t, actual) ==
    t.file_hash = NoHash \/ _hash_matches(actual, t.file_hash)

\* The body arrived with another digest than the expected one: _hash_matches
\* removes the temp file and download_file_async returns False. A file of an
\* earlier download may be at the final path or not.
HashMismatch(t) ==
    /\ pc = "download" /\ t \in DOMAIN dl /\ dl[t].st = "streaming"
    /\ Fault(t)
    /\ \E actual \in Digests, final_exists \in BOOLEAN :
          /\ ~HashOk(t, actual)
          /\ tmpfiles' = finally_remove(
                             _hash_matches_remove(tmpfiles, {TmpOf(t)}, FALSE),
                             {TmpOf(t)}, final_exists)
          /\ obs' = [Failed(t, "hash") EXCEPT !.hash_failed = @ \cup {<<t, actual>>}]
    /\ Settle(t, FALSE)
    /\ UNCHANGED <<configVars, remoteVars, storeVars, files, pc, resource_ids, runs, changes,
                   fetched_data, txn, tasks, ret>>
    /\ UNCHANGED <<unzip, sideVars>>

\* os.replace(tmp_path, file_path): the final path holds the whole file.
Replaced(t) ==
    [files EXCEPT ![TaskKey(t)] = "whole"]

\* The body arrived, the hash matches, and os.replace raises (the file at
\* the final path is in use): the OSError is not retried, the finally block
\* runs with tmp_path set, and _download_one records the task as error. A
\* file of an earlier download may be at the final path or not.
RenameFail(t) ==
    /\ pc = "download" /\ t \in DOMAIN dl /\ dl[t].st = "streaming"
    /\ \E actual \in Digests : HashOk(t, actual)
    /\ Fault(t)
    /\ \E final_exists \in BOOLEAN :
          tmpfiles' = finally_remove(tmpfiles, {TmpOf(t)}, final_exists)
    /\ Settle(t, FALSE)
    /\ obs' = Failed(t, "rename")
    /\ UNCHANGED <<configVars, remoteVars, storeVars, files, pc, resource_ids, runs, changes,
                   fetched_data, txn, tasks, ret>>
    /\ UNCHANGED <<unzip, sideVars>>

\* The body arrived, the hash matches, the rename and the extraction succeed.
StreamDone(t) ==
    /\ pc = "download" /\ t \in DOMAIN dl /\ dl[t].st = "streaming"
    /\ \E actual \in Digests : HashOk(t, actual)
    /\ files' = Replaced(t)
    /\ tmpfiles' = tmpfiles \ {TmpOf(t)}
    /\ Settle(t, TRUE)
    /\ UNCHANGED <<configVars, remoteVars, storeVars, pc, resource_ids, runs, changes,
                   fetched_data, txn, tasks, ret, faults, obs>>
    /\ UNCHANGED <<unzip, sideVars>>

\* The rename succeeded and extract_and_discard_zip raised (a member could
\* not be written): _download_one records the task as error.
ExtractFail(t) ==
    /\ pc = "download" /\ t \in DOMAIN dl /\ dl[t].st = "streaming"
    /\ \E actual \in Digests : HashOk(t, actual)
    /\ Fault(t)
    /\ files' = Replaced(t)
    /\ tmpfiles' = tmpfiles \ {TmpOf(t)}
    /\ Settle(t, FALSE)
    /\ obs' = Failed(t, "extract")
    /\ UNCHANGED <<configVars, remoteVars, storeVars, pc, resource_ids, runs, changes,
                   fetched_data, txn, tasks, ret>>
    /\ UNCHANGED <<unzip, sideVars>>

\* delete_zip_file: os.remove, which a PermissionError can stop.
delete_zip_file(fs, path, removed) ==
    IF removed THEN [fs EXCEPT ![path] = "absent"] ELSE fs

\* The rename succeeded and extract_and_discard_zip refused the archive (it
\* is larger than 2GB compressed or uncompressed, has more than 60000
\* entries, or testzip found a bad member): it prints, deletes the archive
\* and returns, and download_resource_async returns True.
ExtractAbort(t) ==
    /\ pc = "download" /\ t \in DOMAIN dl /\ dl[t].st = "streaming"
    /\ \E actual \in Digests : HashOk(t, actual)
    /\ Fault(t)
    /\ \E removed \in BOOLEAN :
          files' = delete_zip_file(Replaced(t), TaskKey(t), removed)
    /\ tmpfiles' = tmpfiles \ {TmpOf(t)}
    /\ Settle(t, TRUE)
    /\ obs' = [obs EXCEPT !.rejected = @ \cup {t}]
    /\ UNCHANGED <<configVars, remoteVars, storeVars, pc, resource_ids, runs, changes,
                   fetched_data, txn, tasks, ret>>
    /\ UNCHANGED <<unzip, sideVars>>

\* asyncio.gather returned: every download settled. The batch is opened when
\* there is something to apply; otherwise sync() reports.
DownloadsSettled ==
    /\ pc = "download"
    /\ \A t \in DOMAIN dl : ~InFlight(t)
    /\ IF pending_updates # {}
       THEN /\ pc' = "apply"
            /\ txn' = [rows |-> downloads, lft |-> last_fetch_time]
            /\ UNCHANGED ret
       ELSE /\ pc' = "returned"
            /\ ret' = SyncResult(download_results)
            /\ UNCHANGED txn
    /\ UNCHANGED <<configVars, remoteVars, storeVars, diskVars, resource_ids, runs, changes,
                   fetched_data, tasks, dl, download_results, pending_updates,
                   faults, obs>>
    /\ UNCHANGED <<unzip, sideVars>>

\* store.apply_updates: the UPDATEs and the commit, or, when a statement
\* raises after the updates in `done`, the rollback.
apply_updates_partial(db, updates, done, raises) ==
    IF raises THEN ApplyAll(db, done) ELSE ApplyAll(db, updates)

apply_updates(db, updates, done, raises) ==
    IF raises THEN db ELSE ApplyAll(db, updates)

\* store.apply_updates commits.
ApplyCommit ==
    /\ pc = "apply"
    /\ downloads' = apply_updates(downloads, pending_updates, pending_updates, FALSE)
    /\ txn' = NoTxn
    /\ pc' = "returned"
    /\ ret' = SyncResult(download_results)
    /\ obs' = [obs EXCEPT !.apply = "committed"]
    /\ UNCHANGED <<last_fetch_time, configVars, remoteVars, diskVars,
                   resource_ids, runs, changes, fetched_data, tasks, dl,
                   download_results, pending_updates, faults>>
    /\ UNCHANGED <<unzip, sideVars>>

\* A write of the batch fails (database locked, disk full) after the
\* updates in `done`: apply_updates rolls back and raises, and
\* _download_and_update prints the error and returns the results.
ApplyFail ==
    /\ pc = "apply"
    /\ faults < MaxFaults
    /\ faults' = faults + 1
    /\ \E done \in SUBSET pending_updates :
          /\ done # pending_updates
          /\ downloads' = apply_updates(downloads, pending_updates, done, TRUE)
    /\ txn' = NoTxn
    /\ pc' = "returned"
    /\ ret' = SyncResult(download_results)
    /\ obs' = [obs EXCEPT !.apply = "failed"]
    /\ UNCHANGED <<last_fetch_time, configVars, remoteVars, diskVars,
                   resource_ids, runs, changes, fetched_data, tasks, dl,
                   download_results, pending_updates>>
    /\ UNCHANGED <<unzip, sideVars>>

\* ------------------------------------------------------------ cancellation
\* The task running run_sync is cancelled: CancelledError is raised at the
\* await it is suspended in, and run_sync (or sync) turns it into False.
\*  - awaiting the catalog: nothing was written;
\*  - inside the ingest transaction: "except Exception" does not catch it,
\*    the connection is closed with the transaction open, which rolls back;
\*  - awaiting the commit: the commit was handed to the connection's worker
\*    thread, which may have executed it or not;
\*  - in the download stage: gather cancels every download in flight; the
\*    batch is not applied;
\*  - inside the batch: after the updates in `done` the connection is closed,
\*    which rolls back, unless the commit was handed over and executed.
Cancelled(committed) ==
    [obs EXCEPT !.cancel_at = pc,
                !.apply = IF committed THEN "committed" ELSE @]

Cancel ==
    /\ \/ /\ pc \in {"fetch", "download"}
          /\ UNCHANGED <<downloads, last_fetch_time>>
          /\ obs' = Cancelled(FALSE)
       \/ /\ pc \in {"store", "queue", "commit"}
          /\ downloads' = Rollback(downloads, txn.rows)
          /\ UNCHANGED last_fetch_time
          /\ obs' = Cancelled(FALSE)
       \/ /\ pc = "commit"
          /\ downloads' = txn.rows
          /\ last_fetch_time' = txn.lft
          /\ obs' = Cancelled(FALSE)
       \/ /\ pc = "apply"
          /\ \E done \in SUBSET pending_updates :
                downloads' = Rollback(downloads, ApplyAll(downloads, done))
          /\ UNCHANGED last_fetch_time
          /\ obs' = Cancelled(FALSE)
       \/ /\ pc = "apply"
          /\ downloads' = apply_updates(downloads, pending_updates,
                                        pending_updates, FALSE)
          /\ UNCHANGED last_fetch_time
          /\ obs' = Cancelled(TRUE)
    \* a download cancelled while streaming: neither the except clause of
    \* _stream_to_tempfile nor the finally block of download_file_async
    \* (whose tmp_path is still None) removes the temp file
    /\ tmpfiles' = finally_remove(except_remove(tmpfiles, tmpfiles, FALSE), {}, FALSE)
    /\ txn' = NoTxn
    /\ pc' = "returned"
    /\ ret' = "false"
    /\ UNCHANGED <<configVars, remoteVars, files, resource_ids, runs, changes,
                   fetched_data, tasks, dl, download_results, pending_updates,
                   faults>>
    /\ UNCHANGED <<unzip, sideVars>>

\* run_sync has returned; the caller goes on.
Finish ==
    /\ pc = "returned"
    /\ pc' = "idle"
    /\ obs' = ObsIdle(
          resource_ids.full /\ ret = "true" /\ ~obs.fetch_failed,
          IF obs.apply = "failed" \/ (obs.cancel_at = "apply" /\ obs.apply # "committed")
          THEN [keys |-> {TaskKey(t) : t \in {x \in DOMAIN dl : dl[x].st = "downloaded"}},
                scope |-> resource_ids, fresh |-> TRUE]
          ELSE NoLoss)
    /\ resource_ids' = [full |-> TRUE, ids |-> {}]
    /\ fetched_data' = NoData
    /\ txn' = NoTxn
    /\ tasks' = {}
    /\ dl' = [t \in {} |-> 0]
    /\ download_results' = {}
    /\ pending_updates' = {}
    /\ ret' = "none"
    /\ tmpfiles' = {}
    /\ files' = [k \in Keys |-> "absent"]
    /\ UNCHANGED <<configVars, remoteVars, storeVars, runs, changes, faults>>
    /\ UNCHANGED <<unzip, sideVars>>

Next ==
    \/ \E r \in Ids : RemoteUpdate(r)
    \/ \E r \in Ids : EditOptIn(r)
    \/ reset_download_dates
    \/ \E r \in Ids : reset_download_dates_for_resources(r)
    \/ \E rids \in Scopes : run_sync(rids)
    \/ FetchDone
    \/ StoreFetched
    \/ BuildQueue
    \/ Commit
    \/ \E t \in DOMAIN dl : OpenStream(t)
    \/ \E t \in DOMAIN dl : ConnectFail(t)
    \/ \E t \in DOMAIN dl : DiskSpaceAbort(t)
    \/ \E t \in DOMAIN dl : StreamFail(t)
    \/ \E t \in DOMAIN dl : HashMismatch(t)
    \/ \E t \in DOMAIN dl : RenameFail(t)
    \/ \E t \in DOMAIN dl : StreamDone(t)
    \/ \E t \in DOMAIN dl : ExtractFail(t)
    \/ \E t \in DOMAIN dl : ExtractAbort(t)
    \/ DownloadsSettled
    \/ ApplyCommit
    \/ ApplyFail
    \/ Cancel
    \/ Finish

Spec == Init /\ [][Next]_vars

\* ------------------------------------------------- the store over full syncs
\* The pipeline again, with a full sync in two steps (the ingest transaction
\* up to the queue read, then the commit, the downloads and the batch) and
\* with the watch list and the licences changing between the syncs.
Watchable == {R1865}

Licensable == {R153}

Toggle(S, r) == IF r \in S THEN S \ {r} ELSE S \cup {r}

\* The user watches or unwatches resource r on the site.
SetWatched(r) ==
    /\ pc = "idle"
    /\ rgwatched' = Toggle(rgwatched, r)
    /\ UNCHANGED <<special_resources, remote_version, last_update, now,
                   licenses, ENV, downloads, last_fetch_time, files, tmpfiles,
                   pc, resource_ids, fetched_data, txn, tasks, dl,
                   download_results, pending_updates, ret, faults, runs,
                   changes, obs, unzip, sideVars>>

\* A licence of the user for resource r starts or ends.
SetLicensed(r) ==
    /\ pc = "idle"
    /\ licenses' = Toggle(licenses, r)
    /\ UNCHANGED <<special_resources, remote_version, last_update, now,
                   rgwatched, ENV, downloads, last_fetch_time, files, tmpfiles,
                   pc, resource_ids, fetched_data, txn, tasks, dl,
                   download_results, pending_updates, ret, faults, runs,
                   changes, obs, unzip, sideVars>>

\* The user edits opt_in of a special resource.
SetOptIn(r) ==
    /\ pc = "idle"
    /\ special_resources' =
          [special_resources EXCEPT ![r] = [@ EXCEPT !.opt_in = ~@]]
    /\ UNCHANGED <<remote_version, last_update, now, rgwatched,
                   licenses, ENV, downloads, last_fetch_time, files, tmpfiles,
                   pc, resource_ids, fetched_data, txn, tasks, dl,
                   download_results, pending_updates, ret, faults, runs,
                   changes, obs, unzip, sideVars>>

\* The remote side publishes a new file of resource r.
Publish(r) ==
    /\ pc = "idle"
    /\ now < 1 + MaxBumps
    /\ remote_version' = [remote_version EXCEPT ![r] = @ + 1]
    /\ now' = now + 1
    /\ last_update' = [last_update EXCEPT ![r] = now + 1]
    /\ UNCHANGED <<special_resources, rgwatched,
                   licenses, ENV, downloads, last_fetch_time, files, tmpfiles,
                   pc, resource_ids, fetched_data, txn, tasks, dl,
                   download_results, pending_updates, ret, faults, runs,
                   changes, obs, unzip, sideVars>>

FullScope == [full |-> TRUE, ids |-> {}]

\* The ids of a set as a sequence, and the ids of a sequence as a set.
RECURSIVE SeqOf(_)
SeqOf(S) ==
    IF S = {} THEN <<>>
    ELSE LET x == CHOOSE y \in S : TRUE IN <<x>> \o SeqOf(S \ {x})

Range(q) == {q[i] : i \in DOMAIN q}

\* What the remote side lists fits on one page.
PagesOf(S) == <<SeqOf(S)>>

\* run_sync(None) up to the queue read: the fetches (the page requests in
\* `lost_w` and `lost_l` fail, the resource requests in `failed` return
\* nothing), BEGIN, the upserts, the reconcile, the queue.
IngestFull(lost_w, lost_l) ==
    /\ pc = "idle"
    /\ LET want == IdsToFetch(downloads, last_fetch_time, special_resources,
                              FullScope, last_update)
       IN  \E failed \in SUBSET want :
             /\ faults + Cardinality(failed) + Cardinality(lost_w)
                    + Cardinality(lost_l) <= MaxFaults
             /\ faults' = faults + Cardinality(failed) + Cardinality(lost_w)
                              + Cardinality(lost_l)
             /\ obs' = [obs EXCEPT !.start_rows = downloads,
                                   !.start_lft = last_fetch_time,
                                   !.fetch_failed = failed # {},
                                   !.listing = [NoListing EXCEPT
                                                  !.failed = lost_w \cup lost_l]]
             /\ LET fd == FetchedData(special_resources, FullScope,
                                      {Payload(r) : r \in Range(
                                          fetch_watched_resources(
                                              PagesOf(rgwatched), lost_w))},
                                      {License(r, TRUE, Payload(r)) : r \in Range(
                                          fetch_licenses(PagesOf(licenses), lost_l))},
                                      {Payload(r) : r \in want \ failed})
                    rows == clean_up_unnecessary_resources(
                                _store_fetched_data_async(downloads, fd, ENV),
                                CurrentIds(fd, ENV))
                IN  /\ fetched_data' = fd
                    /\ txn' = [rows |-> rows, lft |-> now]
                    /\ tasks' = QueueOf(rows, FullScope)
    /\ resource_ids' = FullScope
    /\ pc' = "commit"
    /\ UNCHANGED <<special_resources, remote_version, last_update, now,
                   rgwatched, licenses, ENV, downloads, last_fetch_time, files,
                   tmpfiles, dl, download_results, pending_updates, ret, runs,
                   changes, unzip, sideVars>>

\* A full sync whose watched and license pages are all answered.
FullSyncIngest == IngestFull({}, {})

\* A full sync in which the request of a watched or license page fails.
FullSyncIngestPageLost ==
    \E lost_w \in FailedPages(PagesOf(rgwatched)),
       lost_l \in FailedPages(PagesOf(licenses)) :
        /\ lost_w \cup lost_l # {}
        /\ IngestFull(lost_w, lost_l)

\* run_sync([r]) up to the queue read: the fetches (of which those in
\* `failed` return nothing), BEGIN, the upserts, the queue, the stamp of
\* last_fetch_time.
TargetedSyncIngest(r) ==
    /\ pc = "idle"
    /\ LET scope == [full |-> FALSE, ids |-> {r}]
           want == IdsToFetch(downloads, last_fetch_time, special_resources,
                              scope, last_update)
       IN  \E failed \in SUBSET want :
             /\ faults + Cardinality(failed) <= MaxFaults
             /\ faults' = faults + Cardinality(failed)
             /\ obs' = [obs EXCEPT !.start_rows = downloads,
                                   !.start_lft = last_fetch_time,
                                   !.fetch_failed = failed # {}]
             /\ LET fd == FetchedData(special_resources, scope, {}, {},
                                      {Payload(x) : x \in want \ failed})
                    rows == _store_fetched_data_async(downloads, fd, ENV)
                IN  /\ fetched_data' = fd
                    /\ txn' = [rows |-> rows, lft |-> now]
                    /\ tasks' = QueueOf(rows, scope)
             /\ resource_ids' = scope
    /\ pc' = "commit"
    /\ UNCHANGED <<special_resources, remote_version, last_update, now,
                   rgwatched, licenses, ENV, downloads, last_fetch_time, files,
                   tmpfiles, dl, download_results, pending_updates, ret, runs,
                   changes, unzip, sideVars>>

\* The commit, the downloads (those in `ok` succeed) and the version-update
\* batch, of a full or a targeted sync; run_sync returns.
FullSyncDownload ==
    /\ pc = "commit"
    /\ \E ok \in SUBSET {t \in tasks : needs_download(t)} :
          downloads' = apply_updates(
              txn.rows,
              {<<t.resource_id, t.remote_version, is_dependency(t),
                 t.parent_resource_id>> : t \in ok}, {}, FALSE)
    /\ last_fetch_time' = txn.lft
    /\ pc' = "idle"
    /\ obs' = ObsIdle(FALSE, NoLoss)
    /\ fetched_data' = NoData
    /\ txn' = NoTxn
    /\ tasks' = {}
    /\ UNCHANGED <<special_resources, remote_version, last_update, now,
                   rgwatched, licenses, ENV, files, tmpfiles, resource_ids, dl,
                   download_results, pending_updates, ret, faults, runs,
                   changes, unzip, sideVars>>

StoreNext ==
    \/ \E r \in Watchable : SetWatched(r)
    \/ \E r \in Licensable : SetLicensed(r)
    \/ \E r \in Targets : SetOptIn(r)
    \/ \E r \in Ids : Publish(r)
    \/ FullSyncIngest
    \/ FullSyncDownload

StoreSpec == Init /\ [][StoreNext]_vars

\* Full and targeted syncs of the special resources while new files are
\* published.
FreshNext ==
    \/ \E r \in Ids : Publish(r)
    \/ FullSyncIngest
    \/ \E r \in Targets : TargetedSyncIngest(r)
    \/ FullSyncDownload

FreshSpec == Init /\ [][FreshNext]_vars

\* Full syncs over the watch list and the licences, with page requests
\* that fail.
ListedNext ==
    \/ \E r \in Watchable : SetWatched(r)
    \/ \E r \in Licensable : SetLicensed(r)
    \/ FullSyncIngest
    \/ FullSyncIngestPageLost
    \/ FullSyncDownload

ListedSpec == Init /\ [][ListedNext]_vars

\* ------------------------------------------------ two runs at the same time
\* Two calls of run_sync on one store and one download folder: a request
\* handled by the interface server while the command line (or the terminal
\* UI) syncs. Every run has its own queue, download states and batch; the
\* store, the disk and the remote side are shared. SQLite serialises the
\* ingest transactions and the batches; nothing orders the renames of one
\* run against the batches of the other. Here
\*   pc, resource_ids, tasks, dl, pending_updates, ret  hold one value per run,
\*   files  maps a final path to the file id that the last completed rename
\*          placed there, 0 for none.
Runs == {"server", "cli"}

RaceInit ==
    /\ special_resources \in Configs
    /\ remote_version = [r \in Ids |-> 1]
    /\ last_update = [r \in Ids |-> 1]
    /\ now = 1
    /\ rgwatched = {}
    /\ licenses = {}
    /\ ENV = "LIVE"
    /\ downloads = {}
    /\ last_fetch_time = 0
    /\ files = [k \in Keys |-> 0]
    /\ tmpfiles = {}
    /\ pc = [run \in Runs |-> "idle"]
    /\ resource_ids = [run \in Runs |-> FullScope]
    /\ fetched_data = NoData
    /\ txn = NoTxn
    /\ tasks = [run \in Runs |-> {}]
    /\ dl = [run \in Runs |-> [t \in {} |-> "queued"]]
    /\ download_results = {}
    /\ pending_updates = [run \in Runs |-> {}]
    /\ ret = [run \in Runs |-> "none"]
    /\ faults = 0
    /\ runs = 0
    /\ changes = 0
    /\ obs = ObsIdle(FALSE, NoLoss)
    /\ unzip = NoArchive /\ SideIdle

\* The remote side publishes a new file of resource r while runs are under
\* way; the file it replaces stays downloadable under its own URL.
RemotePublish(r) ==
    /\ now < 1 + MaxBumps
    /\ remote_version' = [remote_version EXCEPT ![r] = @ + 1]
    /\ now' = now + 1
    /\ last_update' = [last_update EXCEPT ![r] = now + 1]
    /\ UNCHANGED <<special_resources, rgwatched,
                   licenses, ENV, downloads, last_fetch_time, files, tmpfiles,
                   pc, resource_ids, fetched_data, txn, tasks, dl,
                   download_results, pending_updates, ret, faults, runs,
                   changes, obs, unzip, sideVars>>

\* sync() of one run up to the download stage: the fetches, the ingest
\* transaction with its commit, the queue, the split into skipped tasks and
\* tasks to download. A run with nothing to download returns here.
SyncIngest(run, rids) ==
    /\ pc[run] = "idle"
    /\ LET want == IdsToFetch(downloads, last_fetch_time, special_resources,
                              rids, last_update)
           fd == FetchedData(special_resources, rids,
                             {Payload(r) : r \in Range(
                                 fetch_watched_resources(PagesOf(rgwatched), {}))},
                             {License(r, TRUE, Payload(r)) : r \in Range(
                                 fetch_licenses(PagesOf(licenses), {}))},
                             {Payload(r) : r \in want})
           stored == _store_fetched_data_async(downloads, fd, ENV)
           rows == IF rids.full
                   THEN clean_up_unnecessary_resources(stored, CurrentIds(fd, ENV))
                   ELSE stored
           queue == QueueOf(rows, rids)
           to_download == {t \in queue : needs_download(t)}
       IN  /\ downloads' = rows
           /\ tasks' = [tasks EXCEPT ![run] = queue]
           /\ dl' = [dl EXCEPT ![run] = [t \in to_download |-> "queued"]]
           /\ pc' = [pc EXCEPT ![run] = IF to_download = {} THEN "returned"
                                        ELSE "downloading"]
           /\ ret' = [ret EXCEPT ![run] =
                         IF NoTasksFound(rids, queue) THEN "false"
                         ELSE IF to_download = {} THEN "true" ELSE "none"]
    /\ last_fetch_time' = now
    /\ resource_ids' = [resource_ids EXCEPT ![run] = rids]
    /\ pending_updates' = [pending_updates EXCEPT ![run] = {}]
    /\ UNCHANGED <<special_resources, remote_version, last_update, now,
                   rgwatched, licenses, ENV, files, tmpfiles, fetched_data,
                   txn, download_results, faults, runs, changes, obs, unzip, sideVars>>

\* _download_one of a run succeeds: the file the task's URL names is renamed
\* onto the final path, and the version update joins the run's batch.
DownloadOne(run, t) ==
    /\ pc[run] = "downloading"
    /\ t \in DOMAIN dl[run]
    /\ dl[run][t] = "queued"
    /\ files' = [files EXCEPT ![TaskKey(t)] = t.remote_version]
    /\ dl' = [dl EXCEPT ![run][t] = "downloaded"]
    /\ pending_updates' = [pending_updates EXCEPT ![run] = @ \cup
          {<<t.resource_id, t.remote_version, is_dependency(t),
             t.parent_resource_id>>}]
    /\ UNCHANGED <<special_resources, remote_version, last_update, now,
                   rgwatched, licenses, ENV, downloads, last_fetch_time,
                   tmpfiles, pc, resource_ids, fetched_data, txn, tasks,
                   download_results, ret, faults, runs, changes, obs, unzip, sideVars>>

\* _download_one of a run fails: nothing is renamed, nothing joins the batch.
DownloadOneError(run, t) ==
    /\ pc[run] = "downloading"
    /\ t \in DOMAIN dl[run]
    /\ dl[run][t] = "queued"
    /\ dl' = [dl EXCEPT ![run][t] = "error"]
    /\ UNCHANGED <<special_resources, remote_version, last_update, now,
                   rgwatched, licenses, ENV, downloads, last_fetch_time, files,
                   tmpfiles, pc, resource_ids, fetched_data, txn, tasks,
                   download_results, pending_updates, ret, faults, runs,
                   changes, obs, unzip, sideVars>>

\* The tasks that the runs under way download.
ToDownload == UNION {DOMAIN dl[run] : run \in Runs}

\* The (resource_id, result) pairs of a run's downloads.
ResultsOf(run) == {<<t.resource_id, dl[run][t]>> : t \in DOMAIN dl[run]}

\* gather returned: the run applies its batch (or the batch fails and the
\* error is printed), and sync() returns.
UpdateBatch(run) ==
    /\ pc[run] = "downloading"
    /\ \A t \in DOMAIN dl[run] : dl[run][t] # "queued"
    /\ \E raises \in BOOLEAN :
          /\ raises => (pending_updates[run] # {} /\ faults < MaxFaults)
          /\ faults' = IF raises THEN faults + 1 ELSE faults
          /\ downloads' = apply_updates(downloads, pending_updates[run], {},
                                        raises)
    /\ pc' = [pc EXCEPT ![run] = "returned"]
    /\ ret' = [ret EXCEPT ![run] = SyncResult(ResultsOf(run))]
    /\ UNCHANGED <<special_resources, remote_version, last_update, now,
                   rgwatched, licenses, ENV, last_fetch_time, files, tmpfiles,
                   resource_ids, fetched_data, txn, tasks, dl,
                   download_results, pending_updates, runs, changes, obs,
                   unzip, sideVars>>

RaceNext ==
    \/ \E r \in Targets : RemotePublish(r)
    \/ \E run \in Runs, rids \in Scopes : SyncIngest(run, rids)
    \/ \E run \in Runs, t \in ToDownload : DownloadOne(run, t)
    \/ \E run \in Runs, t \in ToDownload : DownloadOneError(run, t)
    \/ \E run \in Runs : UpdateBatch(run)

RaceSpec == RaceInit /\ [][RaceNext]_vars

\* --------------------------------------- the ingest transaction that fails
\* A statement of the ingest transaction raises (database locked, disk full,
\* a malformed row): sync() rolls back and re-raises, and run_sync, which
\* catches only KeyboardInterrupt and CancelledError, lets the error out.
\* `working` is what the transaction had written when the statement failed:
\* nothing yet or the upserts (a failing upsert), the upserts with or
\* without the reconcile (a failing reconcile, stamp or queue read).
IngestFail ==
    /\ pc \in {"store", "queue"}
    /\ faults < MaxFaults
    /\ faults' = faults + 1
    /\ \E working \in
          IF pc = "store"
          THEN {txn.rows, _store_fetched_data_async(txn.rows, fetched_data, ENV)}
          ELSE {txn.rows} \cup
               IF resource_ids.full
               THEN {clean_up_unnecessary_resources(
                         txn.rows, CurrentIds(fetched_data, ENV))}
               ELSE {} :
          downloads' = Rollback(downloads, working)
    /\ last_fetch_time' = Rollback(last_fetch_time, now)
    /\ txn' = NoTxn
    /\ pc' = "returned"
    /\ ret' = "raised"
    /\ UNCHANGED <<configVars, remoteVars, diskVars, resource_ids, runs,
                   changes, fetched_data, tasks, dl, download_results,
                   pending_updates, obs>>
    /\ UNCHANGED <<unzip, sideVars>>

\* Targeted sync: the stamp of last_fetch_time fails; the except clause
\* around it passes, and the run goes on to the commit without the stamp.
StampFail ==
    /\ pc = "queue"
    /\ ~resource_ids.full
    /\ faults < MaxFaults
    /\ faults' = faults + 1
    /\ tasks' = QueueOf(txn.rows, resource_ids)
    /\ pc' = "commit"
    /\ UNCHANGED <<configVars, remoteVars, storeVars, diskVars, resource_ids,
                   runs, changes, fetched_data, txn, dl, download_results,
                   pending_updates, ret, obs>>
    /\ UNCHANGED <<unzip, sideVars>>

IngestNext ==
    \/ \E r \in Targets : RemoteUpdate(r)
    \/ \E rids \in Scopes : run_sync(rids)
    \/ FetchDone
    \/ StoreFetched
    \/ BuildQueue
    \/ IngestFail
    \/ StampFail
    \/ Commit
    \/ \E t \in DOMAIN dl : OpenStream(t)
    \/ \E t \in DOMAIN dl : StreamDone(t)
    \/ DownloadsSettled
    \/ ApplyCommit
    \/ Finish

IngestSpec == Init /\ [][IngestNext]_vars

\* ------------------------------------- the connections of the download stage
\* _download_and_update opens one httpx.AsyncClient with http2=True and
\* Limits(max_connections=6, max_keepalive_connections=6) and starts one
\* coroutine per task with gather. The limit counts connections. Which
\* protocol a connection speaks is settled with the server when the first
\* connection is made: over HTTP/1.1 a connection carries one response at a
\* time, over HTTP/2 the requests of one client are streams of one
\* connection. pool.connections counts the open connections, idle ones
\* (kept alive) included.
DOWNLOAD_MAX_CONNECTIONS == 6

\* The longest queue of the download stage.
MaxQueue == 7

Protocols == {"HTTP/1.1", "HTTP/2"}

QueueTask(k) ==
    [resource_id        |-> k[1],
     parent_resource_id |-> IF k[2] = 0 THEN None ELSE k[2],
     remote_version     |-> 1,
     local_version      |-> 0,
     file_hash          |-> NoHash]

\* A queue of n tasks that need a download.
Queue(n) == LET keys == SeqOf(Keys) IN {QueueTask(keys[i]) : i \in 1..n}

Streaming == {t \in DOMAIN dl : dl[t].st = "streaming"}

\* The client is opened and gather starts every download of the queue.
OpenClient(n) ==
    /\ pc = "idle"
    /\ runs = 0
    /\ runs' = 1
    /\ tasks' = Queue(n)
    /\ dl' = [t \in Queue(n) |-> [st |-> "queued", attempt |-> 1]]
    /\ pool' = NoPool
    /\ pc' = "download"
    /\ UNCHANGED <<configVars, remoteVars, storeVars, diskVars, resource_ids,
                   fetched_data, txn, download_results, pending_updates, ret,
                   faults, changes, obs, unzip, besidePool>>

\* client.stream(...) of task t gets a connection: a stream of the HTTP/2
\* connection, an idle HTTP/1.1 connection, or a new connection while fewer
\* than max_connections are open.
Acquire(t) ==
    /\ pc = "download" /\ t \in DOMAIN dl /\ dl[t].st = "queued"
    /\ \/ /\ pool.protocol = "HTTP/2"
          /\ pool.connections >= 1
          /\ UNCHANGED pool
       \/ /\ pool.protocol = "HTTP/1.1"
          /\ Cardinality(Streaming) < pool.connections
          /\ UNCHANGED pool
       \/ /\ pool.protocol = "none" \/ Cardinality(Streaming) >= pool.connections
          /\ pool.protocol = "HTTP/2" => pool.connections = 0
          /\ pool.connections < DOWNLOAD_MAX_CONNECTIONS
          /\ \E protocol \in Protocols :
                /\ pool.protocol # "none" => protocol = pool.protocol
                /\ pool' = [protocol |-> protocol,
                            connections |-> pool.connections + 1]
    /\ dl' = [dl EXCEPT ![t] = [@ EXCEPT !.st = "streaming"]]
    /\ tmpfiles' = tmpfiles \cup {TmpOf(t)}
    /\ UNCHANGED <<configVars, remoteVars, storeVars, files, pc, resource_ids,
                   runs, changes, fetched_data, txn, tasks, download_results,
                   pending_updates, ret, faults, obs, unzip, besidePool>>

\* Every connection is taken for the 60 seconds of the client's timeout:
\* httpx raises PoolTimeout, a TimeoutException, which tenacity retries.
PoolTimeout(t) ==
    /\ pc = "download" /\ t \in DOMAIN dl /\ dl[t].st = "queued"
    /\ pool.protocol = "HTTP/1.1"
    /\ pool.connections = DOWNLOAD_MAX_CONNECTIONS
    /\ Cardinality(Streaming) = pool.connections
    /\ Fault(t)
    /\ RetryOrFail(t)
    /\ obs' = Failed(t, "http")
    /\ UNCHANGED <<configVars, remoteVars, storeVars, diskVars, pc,
                   resource_ids, runs, changes, fetched_data, txn, tasks, ret,
                   unzip, pool, besidePool>>

\* The download of task t ends well: the response is closed and its
\* connection is idle again (kept alive).
Release(t) ==
    /\ pc = "download" /\ t \in DOMAIN dl /\ dl[t].st = "streaming"
    /\ files' = Replaced(t)
    /\ tmpfiles' = tmpfiles \ {TmpOf(t)}
    /\ Settle(t, TRUE)
    /\ UNCHANGED <<configVars, remoteVars, storeVars, pc, resource_ids, runs,
                   changes, fetched_data, txn, tasks, ret, faults, obs, unzip,
                   pool, besidePool>>

\* gather returned and the client is closed.
CloseClient ==
    /\ pc = "download"
    /\ \A t \in DOMAIN dl : ~InFlight(t)
    /\ pool' = NoPool
    /\ pc' = "returned"
    /\ ret' = SyncResult(download_results)
    /\ UNCHANGED <<configVars, remoteVars, storeVars, diskVars, resource_ids,
                   runs, changes, fetched_data, txn, tasks, dl,
                   download_results, pending_updates, faults, obs, unzip, besidePool>>

PoolNext ==
    \/ \E n \in 1..MaxQueue : OpenClient(n)
    \/ \E t \in DOMAIN dl : Acquire(t)
    \/ \E t \in DOMAIN dl : PoolTimeout(t)
    \/ \E t \in DOMAIN dl : Release(t)
    \/ CloseClient

PoolSpec == PlainInit /\ [][PoolNext]_vars

\* ------------------------------------------- net.py: one catalog request
\* net.get_json under tenacity: stop_after_attempt(3), retry only on
\* httpx.RequestError, reraise. The callers are fetch_single_resource
\* ("resource"), fetch_watched_page and fetch_licenses_page ("page"), which
\* catch every Exception, and fetch_manifest_cached ("manifest"), which
\* catches none, as the functions of sync.py that await it.
stop_after_attempt == 3

\* Subclasses of httpx.RequestError.
RequestErrors == {"TimeoutException", "ConnectError"}

\* What an attempt can end with: the JSON body, a transport error,
\* raise_for_status on a 4xx or 5xx response, response.json() on a body
\* that is not JSON.
Outcomes == {"json"} \cup RequestErrors \cup {"HTTPStatusError", "JSONDecodeError"}

RequestKinds == {"resource", "page", "manifest"}

retry_if_exception_type(error) == error \in RequestErrors

\* One attempt of get_json ends with `outcome`: tenacity returns the body,
\* starts the next attempt, or re-raises.
get_json(r, outcome) ==
    IF outcome = "json" THEN [r EXCEPT !.st = "returned"]
    ELSE IF retry_if_exception_type(outcome) /\ r.attempt < stop_after_attempt
    THEN [r EXCEPT !.attempt = @ + 1, !.errors = @ \cup {outcome}]
    ELSE [r EXCEPT !.st = "raised", !.errors = @ \cup {outcome}]

\* The fetch stage of a run awaits get_json for a resource, a page or the
\* manifest.
Call(kind) ==
    /\ pc = "fetch"
    /\ request.st = "idle"
    /\ request' = [NoRequest EXCEPT !.kind = kind, !.st = "pending",
                                    !.attempt = 1]
    /\ UNCHANGED <<pipeline, unzip, besideRequest>>

\* The attempt under way ends.
Respond(outcome) ==
    /\ pc = "fetch"
    /\ request.st = "pending"
    /\ request' = get_json(request, outcome)
    /\ UNCHANGED <<pipeline, unzip, besideRequest>>

\* get_json returned or raised into its caller: fetch_single_resource
\* answers the resource or None, a page fetch the items or ([], 0), and
\* the exception of a manifest request leaves _fetch_from_api_async, sync
\* and run_sync.
Surface ==
    /\ pc = "fetch"
    /\ request.st \in {"returned", "raised"}
    /\ IF request.st = "returned"
       THEN /\ request' = [NoRequest EXCEPT !.result = "body"]
            /\ UNCHANGED <<pc, ret>>
       ELSE IF request.kind = "manifest"
       THEN /\ request' = [request EXCEPT !.st = "done", !.result = "raised"]
            /\ pc' = "returned"
            /\ ret' = "raised"
       ELSE /\ request' = [request EXCEPT !.st = "done",
                              !.result = IF request.kind = "resource"
                                         THEN "None" ELSE "empty page"]
            /\ UNCHANGED <<pc, ret>>
    /\ UNCHANGED <<configVars, remoteVars, storeVars, diskVars, resource_ids,
                   fetched_data, txn, tasks, dl, download_results,
                   pending_updates, faults, runs, changes, obs, unzip,
                   besideRequest>>

\* The caller goes on to its next request.
NextRequest ==
    /\ pc = "fetch"
    /\ request.st = "done"
    /\ request' = NoRequest
    /\ UNCHANGED <<pipeline, unzip, besideRequest>>

RequestNext ==
    \/ \E rids \in Scopes : run_sync(rids)
    \/ \E kind \in RequestKinds : Call(kind)
    \/ \E outcome \in Outcomes : Respond(outcome)
    \/ Surface
    \/ NextRequest
    \/ request.st = "idle" /\ FetchDone

RequestSpec == Init /\ [][RequestNext]_vars

\* ------------------------------------------ net.py: the manifest caches
\* _MANIFEST_TTL_SECONDS: the time to live of both caches, in seconds.
MANIFEST_TTL_SECONDS == 300

\* The clock advances by Tick seconds at a time, up to MaxClock.
Tick == 120
MaxClock == 720

\* What the manifest endpoint answers: a manifest with resources, or {}.
Bodies == {"resources", "empty"}

\* TTLCache.get and diskcache's Cache.get: the entry while its expiry time
\* lies ahead, nothing afterwards.
cache_get(e, clock) ==
    IF e.body # "none" /\ clock < e.expires THEN e ELSE NoEntry

\* `if manifest:` on what a cache answered.
truthy(e) == e.body = "resources"

\* A disk hit stored into the in-memory cache: TTLCache.__setitem__ gives
\* the item a time to live of its own, counted from now.
promote(e, clock) == [e EXCEPT !.expires = clock + MANIFEST_TTL_SECONDS]

\* fetch_manifest_cached, the endpoint answering `body` if it is asked.
fetch_manifest_cached(body) ==
    LET clock == net.clock
        memory == cache_get(net.manifest_cache, clock)
        disk == cache_get(net.manifest_disk_cache, clock)
        fetched == [body |-> body, fetched |-> clock,
                    expires |-> clock + MANIFEST_TTL_SECONDS]
        held == [net EXCEPT !.held_memory = memory # NoEntry,
                            !.held_disk = disk # NoEntry]
    IN  /\ net' = IF truthy(memory)
                  THEN [held EXCEPT !.returned = memory, !.from = "memory"]
                  ELSE IF truthy(disk)
                  THEN [held EXCEPT !.manifest_cache = promote(disk, clock),
                                    !.returned = disk, !.from = "disk"]
                  ELSE [held EXCEPT !.manifest_cache = fetched,
                                    !.manifest_disk_cache = fetched,
                                    !.returned = fetched, !.from = "network"]
        /\ UNCHANGED <<pipeline, unzip, besideNet>>

\* Time passes.
ClockTick ==
    /\ net.clock + Tick <= MaxClock
    /\ net' = [net EXCEPT !.clock = @ + Tick, !.from = "none"]
    /\ UNCHANGED <<pipeline, unzip, besideNet>>

\* Another process starts: its module-level _manifest_cache is empty, the
\* directory of the disk cache is the one the last process wrote.
NewProcess ==
    /\ net.manifest_cache # NoEntry
    /\ net' = [net EXCEPT !.manifest_cache = NoEntry, !.from = "none"]
    /\ UNCHANGED <<pipeline, unzip, besideNet>>

clear_manifest_cache ==
    /\ net.manifest_disk_cache # NoEntry
    /\ net' = [net EXCEPT !.manifest_cache = NoEntry,
                          !.manifest_disk_cache = NoEntry, !.from = "none"]
    /\ UNCHANGED <<pipeline, unzip, besideNet>>

CacheNext ==
    \/ \E body \in Bodies : fetch_manifest_cached(body)
    \/ ClockTick
    \/ NewProcess
    \/ clear_manifest_cache

CacheSpec == PlainInit /\ [][CacheNext]_vars

\* ------------------------------------------- sync.py: the event callback
\* run_sync(db_path, headers, resource_ids, on_event): the caller passes a
\* callback or None.
run_sync_on_event(rids, callback) ==
    /\ pc = "idle"
    /\ runs < MaxRuns
    /\ runs' = runs + 1
    /\ pc' = "fetch"
    /\ resource_ids' = rids
    /\ tmpfiles' = {}
    /\ obs' = [obs EXCEPT !.start_rows = downloads, !.start_lft = last_fetch_time]
    /\ events' = [on_event |-> callback, log |-> <<>>]
    /\ UNCHANGED <<configVars, remoteVars, storeVars, files, fetched_data, txn,
                   tasks, dl, download_results, pending_updates, ret, faults,
                   changes, unzip, besideEvents>>

\* `if on_event: on_event((kind, task.resource_id, detail))`; task is the
\* task the event is about, which the callback is not told.
on_event(e, kind, t, detail) ==
    IF e.on_event
    THEN [e EXCEPT !.log = Append(@, [kind |-> kind, resource_id |-> t.resource_id,
                                      detail |-> detail, task |-> t])]
    ELSE e

\* What the loop over the tasks emits for one task.
QueuedEvent_start(e, t) == on_event(e, "start", t, "title")

QueuedEvent(e, t) ==
    IF needs_download(t)
    THEN on_event(e, "start", t, "title")
    ELSE on_event(e, "done", t, "skipped")

\* The loop over the tasks, in the order of the rows the queries returned.
RECURSIVE QueuedEvents(_, _)
QueuedEvents(e, queue) ==
    IF queue = <<>> THEN e
    ELSE QueuedEvents(QueuedEvent(e, Head(queue)), Tail(queue))

\* conn.commit() returns and sync() runs the loop over the tasks (no await
\* in it) up to the first await of the download stage, or returns.
QueueAndAnnounce ==
    /\ pc = "commit"
    /\ downloads' = txn.rows
    /\ last_fetch_time' = txn.lft
    /\ txn' = NoTxn
    /\ LET to_download == {t \in tasks : needs_download(t)}
       IN  IF NoTasksFound(resource_ids, tasks)
           THEN /\ ret' = "false"
                /\ pc' = "returned"
                /\ UNCHANGED <<dl, download_results, events>>
           ELSE /\ events' = QueuedEvents(events, SeqOf(tasks))
                /\ download_results' = Skipped
                /\ IF to_download = {}
                   THEN /\ ret' = SyncResult(Skipped)
                        /\ pc' = "returned"
                        /\ UNCHANGED dl
                   ELSE /\ dl' = [t \in to_download |->
                                     [st |-> "queued", attempt |-> 1]]
                        /\ pc' = "download"
                        /\ UNCHANGED ret
    /\ UNCHANGED <<configVars, remoteVars, diskVars, resource_ids, runs,
                   changes, fetched_data, tasks, pending_updates, faults, obs,
                   unzip, besideEvents>>

\* _download_one after download_resource_async returned ok or raised or
\* returned False: the done event, the result, and for a download the
\* pending update.
_download_one(t, ok) ==
    /\ pc = "download" /\ t \in DOMAIN dl /\ dl[t].st = "streaming"
    /\ files' = IF ok THEN Replaced(t) ELSE files
    /\ tmpfiles' = tmpfiles \ {TmpOf(t)}
    /\ events' = on_event(events, "done", t, IF ok THEN "downloaded" ELSE "error")
    /\ Settle(t, ok)
    /\ UNCHANGED <<configVars, remoteVars, storeVars, pc, resource_ids, runs,
                   changes, fetched_data, txn, tasks, ret, faults, obs, unzip,
                   besideEvents>>

EventNext ==
    \/ \E r \in Targets : RemoteUpdate(r)
    \/ \E rids \in Scopes, callback \in BOOLEAN : run_sync_on_event(rids, callback)
    \/ FetchDone
    \/ StoreFetched
    \/ BuildQueue
    \/ QueueAndAnnounce
    \/ \E t \in DOMAIN dl : OpenStream(t)
    \/ \E t \in DOMAIN dl, ok \in BOOLEAN : _download_one(t, ok)
    \/ DownloadsSettled
    \/ ApplyCommit
    \/ Finish

EventSpec == Init /\ [][EventNext]_vars

\* ------------------------------- sync.py: two runs, fetch and ingest apart
\* As RaceInit, with the fetched data of each run.
StaleInit ==
    /\ special_resources = SpecialResources(TRUE, FALSE)
    /\ remote_version = [r \in Ids |-> 1]
    /\ last_update = [r \in Ids |-> 1]
    /\ now = 1
    /\ rgwatched = {}
    /\ licenses = {}
    /\ ENV = "LIVE"
    /\ downloads = {}
    /\ last_fetch_time = 0
    /\ files = [k \in Keys |-> 0]
    /\ tmpfiles = {}
    /\ pc = [run \in Runs |-> "idle"]
    /\ resource_ids = [run \in Runs |-> FullScope]
    /\ fetched_data = [run \in Runs |-> NoData]
    /\ txn = NoTxn
    /\ tasks = [run \in Runs |-> {}]
    /\ dl = [run \in Runs |-> [t \in {} |-> "queued"]]
    /\ download_results = {}
    /\ pending_updates = [run \in Runs |-> {}]
    /\ ret = [run \in Runs |-> "none"]
    /\ faults = 0
    /\ runs = 0
    /\ changes = 0
    /\ obs = ObsIdle(FALSE, NoLoss)
    /\ unzip = NoArchive /\ SideIdle

\* sync() of one run: `fetched_data = await _fetch_from_api_async(...)`. The
\* payloads carry the versions the remote side had when they were fetched.
SyncFetch(run, rids) ==
    /\ pc[run] = "idle"
    /\ LET want == IdsToFetch(downloads, last_fetch_time, special_resources,
                              rids, last_update)
       IN  fetched_data' = [fetched_data EXCEPT ![run] =
              FetchedData(special_resources, rids,
                          {Payload(r) : r \in Range(
                              fetch_watched_resources(PagesOf(rgwatched), {}))},
                          {License(r, TRUE, Payload(r)) : r \in Range(
                              fetch_licenses(PagesOf(licenses), {}))},
                          {Payload(r) : r \in want})]
    /\ resource_ids' = [resource_ids EXCEPT ![run] = rids]
    /\ pc' = [pc EXCEPT ![run] = "fetched"]
    /\ UNCHANGED <<special_resources, remote_version, last_update, now,
                   rgwatched, licenses, ENV, downloads, last_fetch_time, files,
                   tmpfiles, txn, tasks, dl, download_results, pending_updates,
                   ret, faults, runs, changes, obs, unzip, sideVars>>

\* sync() of one run from BEGIN to the first await of the download stage:
\* the ingest transaction over what the run fetched, its commit, the queue.
\* A run with nothing to download returns here.
SyncStore(run) ==
    /\ pc[run] = "fetched"
    /\ LET rids == resource_ids[run]
           fd == fetched_data[run]
           stored == _store_fetched_data_async(downloads, fd, ENV)
           rows == IF rids.full
                   THEN clean_up_unnecessary_resources(stored, CurrentIds(fd, ENV))
                   ELSE stored
           queue == QueueOf(rows, rids)
           to_download == {t \in queue : needs_download(t)}
       IN  /\ downloads' = rows
           /\ tasks' = [tasks EXCEPT ![run] = queue]
           /\ dl' = [dl EXCEPT ![run] = [t \in to_download |-> "queued"]]
           /\ pc' = [pc EXCEPT ![run] = IF to_download = {} THEN "returned"
                                        ELSE "downloading"]
           /\ ret' = [ret EXCEPT ![run] =
                         IF NoTasksFound(rids, queue) THEN "false"
                         ELSE IF to_download = {} THEN "true" ELSE "none"]
    /\ last_fetch_time' = now
    /\ pending_updates' = [pending_updates EXCEPT ![run] = {}]
    /\ UNCHANGED <<special_resources, remote_version, last_update, now,
                   rgwatched, licenses, ENV, files, tmpfiles, resource_ids,
                   fetched_data, txn, download_results, faults, runs, changes,
                   obs, unzip, sideVars>>

\* reset_download_dates from the settings screen while runs are under way.
ResetWhileRunning ==
    /\ changes < MaxChanges
    /\ changes' = changes + 1
    /\ downloads' = reset_download_dates_rows(downloads)
    /\ last_fetch_time' = 0
    /\ UNCHANGED <<special_resources, remote_version, last_update, now,
                   rgwatched, licenses, ENV, files, tmpfiles, pc, resource_ids,
                   fetched_data, txn, tasks, dl, download_results,
                   pending_updates, ret, faults, runs, obs, unzip, sideVars>>

StaleNext ==
    \/ \E r \in Targets : RemotePublish(r)
    \/ \E run \in Runs, rids \in Scopes : SyncFetch(run, rids)
    \/ \E run \in Runs : SyncStore(run)
    \/ \E run \in Runs, t \in ToDownload : DownloadOne(run, t)
    \/ \E run \in Runs, t \in ToDownload : DownloadOneError(run, t)
    \/ \E run \in Runs : UpdateBatch(run)
    \/ ResetWhileRunning

StaleSpec == StaleInit /\ [][StaleNext]_vars

\* -------------------------------------------- store.py: initialize_db
\* The connection is in autocommit mode (isolation_level=None): every
\* statement of initialize_db is a transaction of its own, and the
\* statements of two calls interleave.
MaxCalls == 2

\* The stores initialize_db can find: none yet, one of a release without
\* the schema_version column, one with an older schema version, a current
\* one. A store without tables has no rows.
SchemaStores ==
    {[CurrentSchema EXCEPT !.metadata = FALSE, !.column = FALSE,
                           !.version = 0, !.table = FALSE],
     [CurrentSchema EXCEPT !.column = FALSE, !.version = 0],
     [CurrentSchema EXCEPT !.version = 0],
     CurrentSchema}

SchemaInit ==
    /\ special_resources = SpecialResources(TRUE, FALSE)
    /\ PipelineIdle
    /\ unzip = NoArchive
    /\ pool = NoPool /\ request = NoRequest /\ net = NoNet /\ events = NoEvents
    /\ schema \in SchemaStores

\* "if current < SCHEMA_VERSION".
outdated(current) == current < SCHEMA_VERSION

AtCurrentVersion(sc) ==
    sc.metadata /\ sc.column /\ sc.version >= SCHEMA_VERSION

\* _normalize_parent_ids: one row per (resource_id, parent_id); a NULL
\* parent_id, which the unified table does not admit, would become 0.
_normalize_parent_ids(db) ==
    {r \in db : r = RowAt(db, r.resource_id, r.parent_id)}

\* Caller p's call went from the statement `from` to `to`.
CallStep(sc, p, from, to) ==
    [sc EXCEPT !.call[p].pc = IF @ = from THEN to ELSE @]

\* initialize_db is called.
initialize_db(p) ==
    /\ schema.call[p].pc = "idle"
    /\ schema.call[p].calls < MaxCalls
    /\ LET others == {q \in Callers \ {p} : schema.call[q].pc # "idle"}
       IN  schema' = [schema EXCEPT
              !.call = [q \in Callers |->
                 IF q = p
                 THEN [pc |-> "metadata", calls |-> schema.call[p].calls + 1,
                       began_current |-> AtCurrentVersion(schema),
                       alone |-> others = {},
                       had_rows |-> downloads # {}, did_reset |-> FALSE]
                 ELSE IF q \in others THEN [schema.call[q] EXCEPT !.alone = FALSE]
                 ELSE schema.call[q]]]
    /\ UNCHANGED <<pipeline, unzip, besideSchema>>

\* _ensure_metadata: CREATE TABLE IF NOT EXISTS metadata and the default row
\* (1, 0) where it is missing.
EnsureMetadataRow(p) ==
    /\ schema.call[p].pc = "metadata"
    /\ schema' = [CallStep(schema, p, "metadata", "table_info") EXCEPT
                     !.metadata = TRUE]
    /\ last_fetch_time' = IF schema.metadata THEN last_fetch_time ELSE 0
    /\ UNCHANGED <<configVars, remoteVars, downloads, diskVars, runVars,
                   changes, obs, unzip, besideSchema>>

\* PRAGMA table_info(metadata): is there a schema_version column.
TableInfo(p) ==
    /\ schema.call[p].pc = "table_info"
    /\ schema' = CallStep(schema, p, "table_info",
                          IF schema.column THEN "select" ELSE "alter")
    /\ UNCHANGED <<pipeline, unzip, besideSchema>>

\* ALTER TABLE metadata ADD COLUMN schema_version; it raises "duplicate
\* column name" when another call added the column since table_info.
AlterTable(p) ==
    /\ schema.call[p].pc = "alter"
    /\ schema' = IF schema.column
                 THEN CallStep(schema, p, "alter", "raised")
                 ELSE [CallStep(schema, p, "alter", "set_zero") EXCEPT
                          !.column = TRUE, !.version = 0]
    /\ UNCHANGED <<pipeline, unzip, besideSchema>>

\* UPDATE metadata SET schema_version=0.
SetZero(p) ==
    /\ schema.call[p].pc = "set_zero"
    /\ schema' = [CallStep(schema, p, "set_zero", "select") EXCEPT !.version = 0]
    /\ UNCHANGED <<pipeline, unzip, besideSchema>>

\* SELECT schema_version and the comparison with SCHEMA_VERSION.
SelectVersion(p) ==
    /\ schema.call[p].pc = "select"
    /\ schema' = CallStep(schema, p, "select",
                          IF outdated(schema.version) THEN "drop" ELSE "tables")
    /\ UNCHANGED <<pipeline, unzip, besideSchema>>

\* _reset_to_unified_schema: DROP TABLE IF EXISTS downloads, resources,
\* dependencies.
DropTables(p) ==
    /\ schema.call[p].pc = "drop"
    /\ schema' = [CallStep(schema, p, "drop", "update") EXCEPT
                     !.table = FALSE, !.call[p].did_reset = TRUE]
    /\ downloads' = {}
    /\ UNCHANGED <<configVars, remoteVars, last_fetch_time, diskVars, runVars,
                   changes, obs, unzip, besideSchema>>

\* _reset_to_unified_schema: UPDATE metadata SET last_fetch_time=0,
\* schema_version=SCHEMA_VERSION.
UpdateMetadata(p) ==
    /\ schema.call[p].pc = "update"
    /\ schema' = [CallStep(schema, p, "update", "tables") EXCEPT
                     !.version = SCHEMA_VERSION]
    /\ last_fetch_time' = 0
    /\ UNCHANGED <<configVars, remoteVars, downloads, diskVars, runVars,
                   changes, obs, unzip, besideSchema>>

\* _ensure_downloads_table, _normalize_parent_ids, _ensure_indexes,
\* _ensure_navmesh_tables, and the call returns.
EnsureTables(p) ==
    /\ schema.call[p].pc = "tables"
    /\ schema' = [CallStep(schema, p, "tables", "done") EXCEPT !.table = TRUE]
    /\ downloads' = _normalize_parent_ids(downloads)
    /\ UNCHANGED <<configVars, remoteVars, last_fetch_time, diskVars, runVars,
                   changes, obs, unzip, besideSchema>>

\* The caller goes on (or reports the exception) and may call again.
Returned(p) ==
    /\ schema.call[p].pc \in {"done", "raised"}
    /\ schema' = [schema EXCEPT !.call[p] =
                     [NoCall EXCEPT !.calls = schema.call[p].calls]]
    /\ UNCHANGED <<pipeline, unzip, besideSchema>>

\* The ingest transaction of a full sync commits, whatever calls of
\* initialize_db are under way in other processes.
SyncCommitted ==
    /\ schema.metadata /\ schema.table
    /\ runs < MaxRuns
    /\ runs' = runs + 1
    /\ LET want == IdsToFetch(downloads, last_fetch_time, special_resources,
                              FullScope, last_update)
           fd == FetchedData(special_resources, FullScope, {}, {},
                             {Payload(r) : r \in want})
       IN  downloads' = clean_up_unnecessary_resources(
                            _store_fetched_data_async(downloads, fd, ENV),
                            CurrentIds(fd, ENV))
    /\ last_fetch_time' = now
    /\ UNCHANGED <<configVars, remoteVars, diskVars, pc, resource_ids,
                   fetched_data, txn, tasks, dl, download_results,
                   pending_updates, ret, faults, changes, obs, unzip, sideVars>>

SchemaNext ==
    \/ \E p \in Callers : initialize_db(p)
    \/ \E p \in Callers : EnsureMetadataRow(p)
    \/ \E p \in Callers : TableInfo(p)
    \/ \E p \in Callers : AlterTable(p)
    \/ \E p \in Callers : SetZero(p)
    \/ \E p \in Callers : SelectVersion(p)
    \/ \E p \in Callers : DropTables(p)
    \/ \E p \in Callers : UpdateMetadata(p)
    \/ \E p \in Callers : EnsureTables(p)
    \/ \E p \in Callers : Returned(p)
    \/ SyncCommitted

SchemaSpec == SchemaInit /\ [][SchemaNext]_vars

\* ---------------------------------------------------- special.py: resolver
\* compute_special_status over the configurations of three ids: an id may
\* have no entry, an entry may declare any of the other ids as dependency,
\* and every entry and every dependency entry has its own opt_in.
DependencyMaps ==
    UNION {[D -> {[opt_in |-> TRUE], [opt_in |-> FALSE]}] : D \in SUBSET Ids}

ResolverEntries ==
    {[opt_in |-> o, dependencies |-> d] : o \in BOOLEAN, d \in DependencyMaps}

ResolverConfigs ==
    {sr \in UNION {[S -> ResolverEntries] : S \in SUBSET Ids} :
        \A r \in DOMAIN sr : r \notin DOMAIN sr[r].dependencies}

\* The argument: None, or a collection of ids.
ResolverScopes ==
    {FullScope} \cup {[full |-> FALSE, ids |-> C] : C \in SUBSET Ids}

ResolverInit ==
    /\ special_resources \in ResolverConfigs
    /\ PipelineIdle
    /\ unzip = NoArchive /\ SideIdle

\* compute_special_status(resource_ids) returns its status map.
Resolve(rids) ==
    /\ pc = "idle"
    /\ pc' = "resolved"
    /\ resource_ids' = rids
    /\ fetched_data' =
          [NoData EXCEPT !.special_resource_status =
                             compute_special_status(special_resources, rids)]
    /\ UNCHANGED <<special_resources, remote_version, last_update, now,
                   rgwatched, licenses, ENV, downloads, last_fetch_time, files,
                   tmpfiles, txn, tasks, dl, download_results, pending_updates,
                   ret, faults, runs, changes, obs, unzip, sideVars>>

ResolverNext == \E rids \in ResolverScopes : Resolve(rids)

ResolverSpec == ResolverInit /\ [][ResolverNext]_vars

\* ------------------------------------------------ sync.py: the license pass
\* Parent categories: those of CATEGORY_MAP and one outside it.
Categories == CATEGORY_MAP \cup {5}

\* The resources licenses are for, each with its parent category.
LicensedResources ==
    {[Payload(r) EXCEPT !.category_id = c] : r \in {R151, R153}, c \in Categories}

\* The listings of n licenses, numbered 1..n.
ListingsOf(n) ==
    {{License(i, f[i][1], f[i][2]) : i \in 1..n} :
        f \in [1..n -> BOOLEAN \X LicensedResources]}

\* A listing: up to MaxLicenses licenses, a resource having one category.
LicenseLists ==
    {L \in UNION {ListingsOf(n) : n \in 0..MaxLicenses} :
        \A x, y \in L :
            x.resource.resource_id = y.resource.resource_id
                => x.resource.category_id = y.resource.category_id}

Environments == {"LIVE", "TEST", "EMU"}

\* The user switches the environment (config.settings.ENV).
SwitchEnv(env) ==
    /\ pc = "idle"
    /\ env # ENV
    /\ ENV' = env
    /\ UNCHANGED <<special_resources, remote_version, last_update, now,
                   rgwatched, licenses, downloads, last_fetch_time, files,
                   tmpfiles, pc, resource_ids, fetched_data, txn, tasks, dl,
                   download_results, pending_updates, ret, faults, runs,
                   changes, obs, unzip, sideVars>>

\* _process_licensed_resources runs over a listing, inside the transaction.
ProcessLicensed(licensed) ==
    /\ pc = "idle"
    /\ pc' = "licensed"
    /\ fetched_data' = [NoData EXCEPT !.licensed_resources = licensed]
    /\ LET acc == _process_licensed_resources(PassStart(downloads), licensed, ENV)
       IN  /\ txn' = [rows |-> acc.rows, lft |-> last_fetch_time]
           /\ obs' = [obs EXCEPT !.licensed = acc]
    /\ UNCHANGED <<special_resources, remote_version, last_update, now,
                   rgwatched, licenses, ENV, downloads, last_fetch_time, files,
                   tmpfiles, resource_ids, tasks, dl, download_results,
                   pending_updates, ret, faults, runs, changes, unzip, sideVars>>

LicenseNext ==
    \/ \E env \in Environments : SwitchEnv(env)
    \/ \E licensed \in LicenseLists : ProcessLicensed(licensed)

LicenseSpec == PlainInit /\ [][LicenseNext]_vars

\* ------------------------------------------------- api.py: paged listings
PageContents == {<<R151>>, <<R153>>, <<R1865>>, <<R151, R153>>}

Listings == UNION {[1..n -> PageContents] : n \in 1..MaxPages}

\* fetch_watched_resources returns.
FetchWatched(pages, failed) ==
    /\ pc = "idle"
    /\ pc' = "listed"
    /\ obs' = [obs EXCEPT !.listing =
                  [kind |-> "watched", pages |-> pages, failed |-> failed,
                   items |-> fetch_watched_resources(pages, failed)]]
    /\ UNCHANGED <<special_resources, remote_version, last_update, now,
                   rgwatched, licenses, ENV, downloads, last_fetch_time, files,
                   tmpfiles, resource_ids, fetched_data, txn, tasks, dl,
                   download_results, pending_updates, ret, faults, runs,
                   changes, unzip, sideVars>>

\* fetch_licenses returns.
FetchLicenses(pages, failed) ==
    /\ pc = "idle"
    /\ pc' = "listed"
    /\ obs' = [obs EXCEPT !.listing =
                  [kind |-> "licenses", pages |-> pages, failed |-> failed,
                   items |-> fetch_licenses(pages, failed)]]
    /\ UNCHANGED <<special_resources, remote_version, last_update, now,
                   rgwatched, licenses, ENV, downloads, last_fetch_time, files,
                   tmpfiles, resource_ids, fetched_data, txn, tasks, dl,
                   download_results, pending_updates, ret, faults, runs,
                   changes, unzip, sideVars>>

ListingNext ==
    \/ \E pages \in Listings : \E failed \in FailedPages(pages) :
          FetchWatched(pages, failed)
    \/ \E pages \in Listings : \E failed \in FailedPages(pages) :
          FetchLicenses(pages, failed)

ListingSpec == PlainInit /\ [][ListingNext]_vars

\* ------------------------------------------------- download.py: extraction
\* Paths are sequences of components. A member name is its components, with
\* whether it starts with "/" and whether it ends with "/".
Name(parts, absolute, dir) == [parts |-> parts, absolute |-> absolute, dir |-> dir]

\* The folder the archive is extracted to (get_folder_path).
extract_to == <<"d", "x">>

EntryNames ==
    {Name(<<"ok.txt">>, FALSE, FALSE),
     Name(<<"cfg.ini">>, FALSE, FALSE),
     Name(<<"CFG.INI">>, FALSE, FALSE),
     Name(<<"sub", "cfg.ini">>, FALSE, FALSE),
     Name(<<"..", "..", "evil.txt">>, FALSE, FALSE),
     Name(<<"evil.txt">>, TRUE, FALSE),
     Name(<<"cfg.ini", ".">>, FALSE, FALSE),
     Name(<<"sub">>, FALSE, TRUE),
     Name(<<"sub", "..">>, FALSE, FALSE)}

\* str.lower on the file names in use.
LowerName(n) == IF n \in {"CFG.INI", "Cfg.ini"} THEN "cfg.ini" ELSE n

RECURSIVE Normalize(_, _)
Normalize(parts, acc) ==
    IF parts = <<>> THEN acc
    ELSE LET c == Head(parts)
         IN  IF c = "." THEN Normalize(Tail(parts), acc)
             ELSE IF c = ".."
             THEN Normalize(Tail(parts),
                            IF acc = <<>> THEN acc ELSE SubSeq(acc, 1, Len(acc) - 1))
             ELSE Normalize(Tail(parts), Append(acc, c))

\* os.path.normpath of an absolute path
normpath(path) == Normalize(path, <<>>)

\* os.path.join(extract_to, name): an absolute name replaces the base
join(base, name) == IF name.absolute THEN name.parts ELSE base \o name.parts

\* os.path.basename: what follows the last "/"
basename(name) == IF name.dir THEN "" ELSE name.parts[Len(name.parts)]

dirname(path) == SubSeq(path, 1, Len(path) - 1)

\* utils.is_safe_path: commonpath([base, target]) == base
is_safe_path_always(base_directory, target_path) == TRUE

is_safe_path(base_directory, target_path) ==
    /\ Len(base_directory) <= Len(target_path)
    /\ SubSeq(target_path, 1, Len(base_directory)) = base_directory

\* How the file system compares names.
Fold(d, path) ==
    IF d.case_sensitive THEN path ELSE [i \in DOMAIN path |-> LowerName(path[i])]

isfile(d, path) == \E f \in d.files : Fold(d, f.path) = Fold(d, path)

isdir(d, path) == \E x \in d.dirs : Fold(d, x) = Fold(d, path)

\* os.path.exists
exists(d, path) == isfile(d, path) \/ isdir(d, path)

is_protected(d, filename, target_path, protected_files) ==
    /\ LowerName(filename) \in {LowerName(f) : f \in protected_files}
    /\ exists(d, target_path)

Prefixes(path) == {SubSeq(path, 1, k) : k \in 0..Len(path)}

\* os.makedirs(path, exist_ok=True) raises when a component is a file.
makedirs_raises(d, path) == \E q \in Prefixes(path) : isfile(d, q)

makedirs(d, path) ==
    IF makedirs_raises(d, path) THEN d
    ELSE [d EXCEPT !.dirs = @ \cup {q \in Prefixes(path) : ~isdir(d, q)}]

\* open(target_path, 'wb') and copyfileobj: the file holds the member.
write(d, path) ==
    IF isfile(d, path)
    THEN [d EXCEPT !.files = {IF Fold(d, f.path) = Fold(d, path)
                              THEN [f EXCEPT !.content = "new"]
                              ELSE f : f \in d.files}]
    ELSE [d EXCEPT !.files = @ \cup {[path |-> path, content |-> "new"]}]

\* extract_zip_member raises when the folder cannot be made or the target
\* is a directory.
extract_zip_member_raises(d, target_path) ==
    \/ makedirs_raises(d, dirname(target_path))
    \/ isdir(makedirs(d, dirname(target_path)), target_path)

extract_zip_member(d, target_path) ==
    IF extract_zip_member_raises(d, target_path)
    THEN makedirs(d, dirname(target_path))
    ELSE write(makedirs(d, dirname(target_path)), target_path)

\* The loop goes on to the next member, or ends.
NextMember(d) ==
    [d EXCEPT !.member = @ + 1,
              !.pc = IF d.member = Len(d.infolist) THEN "done" ELSE "extracting"]

\* The exception leaves the loop and extract_and_discard_zip.
Raised(d) == [d EXCEPT !.pc = "raised"]

ExtractMember(d, target_path) ==
    IF extract_zip_member_raises(d, target_path)
    THEN Raised(extract_zip_member(d, target_path))
    ELSE NextMember(extract_zip_member(d, target_path))

\* One iteration of the loop of extract_flattened.
extract_flattened(d) ==
    LET member == d.infolist[d.member]
        filename == basename(member)
        normalized_path == normpath(extract_to \o <<filename>>)
    IN  IF filename = "" THEN NextMember(d)
        ELSE IF is_protected(d, filename, normalized_path, d.protected_files)
        THEN NextMember(d)
        ELSE IF is_safe_path(extract_to, normalized_path)
        THEN ExtractMember(d, normalized_path)
        ELSE NextMember(d)

\* One iteration of the loop of extract_with_structure.
extract_with_structure(d) ==
    LET member == d.infolist[d.member]
        normalized_path == normpath(join(extract_to, member))
    IN  IF ~is_safe_path(extract_to, normalized_path) THEN NextMember(d)
        ELSE IF is_protected(d, basename(member), normalized_path, d.protected_files)
        THEN NextMember(d)
        ELSE IF member.dir
        THEN IF makedirs_raises(d, normalized_path)
             THEN Raised(d)
             ELSE NextMember(makedirs(d, normalized_path))
        ELSE ExtractMember(d, normalized_path)

\* The archives, the protected lists and the folders an extraction starts
\* with.
Archives == UNION {[1..n -> EntryNames] : n \in 1..MaxEntries}

ProtectedLists == {{}, {"Cfg.ini"}}

Folders == {{}, {[path |-> extract_to \o <<"cfg.ini">>, content |-> "old"]}}

\* extract_and_discard_zip has passed its guards and starts the loop of the
\* mode the settings select.
ExtractInit ==
    /\ PipelineInit
    /\ SideIdle
    /\ special_resources = SpecialResources(TRUE, TRUE)
    /\ \E infolist \in Archives, flat \in BOOLEAN, prot \in ProtectedLists,
          cs \in BOOLEAN, folder \in Folders :
          unzip = [pc |-> "extracting", infolist |-> infolist, member |-> 1,
                   should_flatten |-> flat, protected_files |-> prot,
                   case_sensitive |-> cs, files |-> folder,
                   dirs |-> Prefixes(extract_to), before |-> folder]

ExtractFlattened ==
    /\ unzip.pc = "extracting"
    /\ unzip.should_flatten
    /\ unzip' = extract_flattened(unzip)
    /\ UNCHANGED <<pipeline, sideVars>>

ExtractWithStructure ==
    /\ unzip.pc = "extracting"
    /\ ~unzip.should_flatten
    /\ unzip' = extract_with_structure(unzip)
    /\ UNCHANGED <<pipeline, sideVars>>

ExtractNext == ExtractFlattened \/ ExtractWithStructure

ExtractSpec == ExtractInit /\ [][ExtractNext]_vars

\* ------------------------------ download.py: the retries of a member write
\* The download stage of a run with the extraction of one of its archives
\* step by step (the other downloads of the run end in one step): every call of extract_zip_member is a loop of at most max_retries
\* attempts. Beside the fields of an extraction, unzip holds
\*   task     the task whose archive is extracted
\*   attempt  the number of the attempt under way for the member
\*   writes   per member, how often its write was attempted
\*   last     how the last attempt ended: "written", "PermissionError" (the
\*            target is held open by another program, or not writable),
\*            "OSError" (any other exception), or "none"
max_retries == 3

\* The most members of an archive extracted step by step.
MaxMembers == 2

MemberNames ==
    {Name(<<"ok.txt">>, FALSE, FALSE),
     Name(<<"sub", "cfg.ini">>, FALSE, FALSE),
     Name(<<"sub">>, FALSE, TRUE)}

MemberArchives == UNION {[1..n -> MemberNames] : n \in 1..MaxMembers}

\* The loop of the mode reaches its call of extract_zip_member for the
\* member at hand (it is not skipped as unsafe, protected or nameless, and
\* it is not a directory of extract_with_structure).
calls_extract_zip_member(d) ==
    LET member == d.infolist[d.member]
    IN  IF d.should_flatten
        THEN LET filename == basename(member)
                 normalized_path == normpath(extract_to \o <<filename>>)
             IN  /\ filename # ""
                 /\ ~is_protected(d, filename, normalized_path, d.protected_files)
                 /\ is_safe_path(extract_to, normalized_path)
        ELSE LET normalized_path == normpath(join(extract_to, member))
             IN  /\ is_safe_path(extract_to, normalized_path)
                 /\ ~is_protected(d, basename(member), normalized_path,
                                  d.protected_files)
                 /\ ~member.dir

\* One iteration of the loop of the mode.
Iterate(d) ==
    IF d.should_flatten THEN extract_flattened(d) ELSE extract_with_structure(d)

\* "if attempt < max_retries - 1", attempts counted from 1 here.
retries_left_always(attempt) == TRUE

retries_left(attempt) == attempt < max_retries

\* One attempt of the loop of extract_zip_member.
extract_zip_member_attempt(d, outcome) ==
    LET w == [d EXCEPT !.writes[d.member] = @ + 1, !.last = outcome]
    IN  CASE outcome = "written" -> [Iterate(w) EXCEPT !.attempt = 1]
          [] outcome = "PermissionError" ->
                IF retries_left(d.attempt)
                THEN [w EXCEPT !.attempt = @ + 1]
                ELSE Raised(w)
          [] OTHER -> Raised(w)

\* The unzip of task t is under way.
Extracting(t) ==
    unzip.pc \in {"extracting", "done", "raised"} /\ unzip.task = t

\* The body of task t arrived, the hash matches, the rename succeeded, the
\* file is an archive that passes the guards: the extraction starts.
BeginExtract(t) ==
    /\ pc = "download" /\ t \in DOMAIN dl /\ dl[t].st = "streaming"
    /\ unzip.pc = "idle"
    /\ \E actual \in Digests : HashOk(t, actual)
    /\ files' = Replaced(t)
    /\ tmpfiles' = tmpfiles \ {TmpOf(t)}
    /\ \E infolist \in MemberArchives, flat \in BOOLEAN :
          unzip' = [pc |-> "extracting", infolist |-> infolist, member |-> 1,
                    should_flatten |-> flat, protected_files |-> {},
                    case_sensitive |-> TRUE, files |-> {},
                    dirs |-> Prefixes(extract_to), before |-> {},
                    task |-> t, attempt |-> 1,
                    writes |-> [i \in DOMAIN infolist |-> 0], last |-> "none"]
    /\ UNCHANGED <<configVars, remoteVars, storeVars, pc, resource_ids, runs,
                   changes, fetched_data, txn, tasks, dl, download_results,
                   pending_updates, ret, faults, obs, sideVars>>

\* The loop handles the member at hand: it skips it, makes its directory,
\* or makes one attempt to write it.
MemberStep ==
    /\ unzip.pc = "extracting"
    /\ IF calls_extract_zip_member(unzip)
       THEN \E outcome \in {"written", "PermissionError", "OSError"} :
               unzip' = extract_zip_member_attempt(unzip, outcome)
       ELSE unzip' = [Iterate(unzip) EXCEPT !.last = "none"]
    /\ UNCHANGED <<pipeline, sideVars>>

\* extract_and_discard_zip returned (the archive is deleted) or raised:
\* _download_one records the task.
EndExtract ==
    /\ unzip.pc \in {"done", "raised"}
    /\ IF unzip.pc = "done"
       THEN /\ Settle(unzip.task, TRUE)
            /\ \E removed \in BOOLEAN :
                  files' = delete_zip_file(files, TaskKey(unzip.task), removed)
            /\ UNCHANGED obs
       ELSE /\ Settle(unzip.task, FALSE)
            /\ obs' = Failed(unzip.task, "extract")
            /\ UNCHANGED files
    /\ unzip' = [unzip EXCEPT !.pc = "closed"]
    /\ UNCHANGED <<configVars, remoteVars, storeVars, tmpfiles, pc,
                   resource_ids, runs, changes, fetched_data, txn, tasks, ret,
                   faults, sideVars>>

MemberNext ==
    \/ run_sync(FullScope)
    \/ FetchDone
    \/ StoreFetched
    \/ BuildQueue
    \/ Commit
    \/ \E t \in DOMAIN dl : OpenStream(t)
    \/ \E t \in DOMAIN dl : ~Extracting(t) /\ StreamDone(t)
    \/ \E t \in DOMAIN dl : BeginExtract(t)
    \/ MemberStep
    \/ EndExtract
    \/ DownloadsSettled
    \/ ApplyCommit

MemberSpec == Init /\ [][MemberNext]_vars

\* -------------------------------------------------------------- properties
VersionLocalAt(db, k) ==
    IF HasRow(db, k[1], k[2]) THEN RowAt(db, k[1], k[2]).version_local ELSE 0

Downloaded == {t \in DOMAIN dl : dl[t].st = "downloaded"}

Errored == {t \in DOMAIN dl : dl[t].st = "error"}

\* A download attempt of the run was made.
AttemptsMade ==
    \E t \in DOMAIN dl : dl[t].st # "queued" \/ dl[t].attempt > 1

NotCancelled == obs.cancel_at = "none"

\* The version_local of every row is what it was when the run started.
VersionLocalKept ==
    \A r \in downloads : r.version_local = VersionLocalAt(obs.start_rows, RowKey(r))

C1_Step ==
    \A r \in downloads' :
        r.version_local # VersionLocalAt(downloads, RowKey(r)) =>
            \/ r.version_local = 0 /\ pc = "idle"
            \/ /\ r.version_local # 0
               /\ pc = "apply"
               /\ obs'.apply = "committed"
               /\ \E t \in Downloaded :
                     /\ TaskKey(t) = RowKey(r)
                     /\ t.remote_version = r.version_local

C1_Txn ==
    pc \in {"queue", "commit"} =>
        \A r \in txn.rows : r.version_local = VersionLocalAt(downloads, RowKey(r))

\* C1: a row's version_local changes to a non-zero value V only when the
\* version-update batch commits, and only for the row (resource_id, parent_id)
\* whose task of the same run was downloaded with remote version V; the
\* upserts and the reconcile of the ingest transaction (before and after its
\* commit) and failed or cancelled downloads leave version_local alone; the
\* only other change is a reset to 0.
C1_VersionLocalOnlyByBatch == [][C1_Step /\ C1_Txn]_vars

\* A second run has upserted a newer remote version over a row whose
\* version_local the batch of the first run had set.
C1_Witness ==
    /\ pc = "download"
    /\ runs > 1
    /\ \E r \in downloads :
          r.version_local # 0 /\ r.version_local < r.version_remote

\* C2: a full sync that follows, with nothing changed, a full sync that
\* returned true makes no download attempt, reports every task as skipped,
\* returns true and leaves version_local and version_remote of every row as
\* they were.
C2_SecondFullSyncIdle ==
    (pc = "returned" /\ obs.good_prev /\ resource_ids.full /\ NotCancelled) =>
        /\ DOMAIN dl = {}
        /\ \A res \in download_results : res[2] = "skipped"
        /\ ret = "true"
        /\ {RowKey(r) : r \in downloads} = {RowKey(r) : r \in obs.start_rows}
        /\ \A r \in downloads :
              /\ VersionLocalKept
              /\ HasRow(obs.start_rows, r.resource_id, r.parent_id)
              /\ r.version_remote
                    = RowAt(obs.start_rows, r.resource_id, r.parent_id).version_remote

\* C3: a run cancelled while it awaits the catalog or inside the ingest
\* transaction, before the queue is built, returns false, has made no
\* download attempt and leaves the rows and last_fetch_time as they were
\* when it started.
C3_CancelBeforeQueue ==
    (pc = "returned" /\ obs.cancel_at \in {"fetch", "store", "queue"}) =>
        /\ ret = "false"
        /\ ~AttemptsMade
        /\ DOMAIN dl = {}
        /\ downloads = obs.start_rows
        /\ last_fetch_time = obs.start_lft

\* A run over a store that holds rows was cancelled after it had upserted
\* fetched payloads inside the transaction.
C3_Witness ==
    /\ pc = "returned"
    /\ obs.cancel_at = "queue"
    /\ fetched_data.special_resources_data # {}
    /\ obs.start_rows # {}
    /\ ret = "false"

\* C4: a run cancelled while a download streams its body returns false,
\* leaves no temp file of the run, no partially written final path, and
\* no changed version_local.
C4_CancelWhileStreaming ==
    (/\ pc = "returned"
     /\ obs.cancel_at = "download"
     /\ \E t \in DOMAIN dl : dl[t].st = "streaming") =>
        /\ ret = "false"
        /\ tmpfiles = {}
        /\ \A k \in Keys : files[k] \in {"absent", "whole"}
        /\ VersionLocalKept

\* C5: a run that is not cancelled returns false when a task ended in
\* error, and true when every task was downloaded or skipped (the queue of a
\* full sync may be empty).
C5_ReturnValue ==
    (pc = "returned" /\ NotCancelled) =>
        /\ Errored # {} => ret = "false"
        /\ (Errored = {} /\ (tasks # {} \/ resource_ids.full)) => ret = "true"

\* A run with one task in error and one downloaded returned false.
C5_Witness ==
    /\ pc = "returned"
    /\ NotCancelled
    /\ Errored # {}
    /\ Downloaded # {}
    /\ ret = "false"

\* C6: when run_sync returned true, the row of every task reported as
\* downloaded has version_local equal to the task's remote version, and the
\* version-update batch did not fail.
C6_TrueMeansRecorded ==
    (pc = "returned" /\ ret = "true") =>
        /\ \A t \in Downloaded :
              VersionLocalAt(downloads, TaskKey(t)) = t.remote_version
        /\ obs.apply # "failed"

\* C7: in a run that is not cancelled and in which a task ended in error,
\* every task of the queue has its own outcome recorded, no more tasks are
\* in error than downloads were hit by a fault, the version-update batch of
\* the downloaded siblings was run, and unless that batch itself failed the
\* row of every downloaded sibling has the task's remote version as
\* version_local.
C7_FailureIsolated ==
    (pc = "returned" /\ NotCancelled /\ Errored # {}) =>
        /\ \A t \in DOMAIN dl :
              ~InFlight(t) /\ <<t.resource_id, dl[t].st>> \in download_results
        /\ Cardinality(Errored) <= faults
        /\ Downloaded # {} => obs.apply \in {"committed", "failed"}
        /\ obs.apply # "failed" =>
              \A t \in Downloaded :
                  VersionLocalAt(downloads, TaskKey(t)) = t.remote_version

\* A task exhausted its attempts, a sibling was downloaded, and the batch
\* recorded the sibling.
C7_Witness ==
    /\ pc = "returned"
    /\ NotCancelled
    /\ \E t \in Errored : dl[t].attempt = MAX_ATTEMPTS
    /\ Downloaded # {}
    /\ obs.apply = "committed"
    /\ \A t \in Downloaded :
          VersionLocalAt(downloads, TaskKey(t)) = t.remote_version

BatchLost ==
    obs.apply = "failed" \/ (obs.cancel_at = "apply" /\ obs.apply # "committed")

\* C8: when the version-update batch fails or is interrupted before its
\* commit, no version_local is changed; and in the next run no task of that
\* batch is treated as current: whenever it is in the queue it needs
\* download, and it is in the queue when the run has the same scope and
\* nothing changed in between.
C8_BatchAllOrNothing ==
    /\ (pc = "returned" /\ BatchLost) => VersionLocalKept
    /\ pc = "commit" =>
          \A k \in obs.lost.keys :
              /\ \A t \in tasks : TaskKey(t) = k => needs_download(t)
              /\ (obs.lost.fresh /\ resource_ids = obs.lost.scope) =>
                    \E t \in tasks : TaskKey(t) = k

\* The batch of two or more downloaded tasks was lost, and the next run, of
\* the same scope with nothing changed, has built its queue.
C8_Witness ==
    /\ pc = "commit"
    /\ Cardinality(obs.lost.keys) > 1
    /\ obs.lost.fresh
    /\ resource_ids = obs.lost.scope
    /\ \A k \in obs.lost.keys : \E t \in tasks : TaskKey(t) = k /\ needs_download(t)

FullSyncDone ==
    pc = "returned" /\ resource_ids.full /\ NotCancelled /\ ~obs.fetch_failed

C9_Unique ==
    \A r1, r2 \in downloads : RowKey(r1) = RowKey(r2) => r1 = r2

C9_TwoRoles ==
    FullSyncDone =>
        \A R \in opted_in_specials(special_resources) :
            dependency_parents(special_resources, R) # {} =>
                {RowKey(r) : r \in {x \in downloads : x.resource_id = R}}
                    = {<<R, 0>>}
                      \cup {<<R, P>> : P \in dependency_parents(special_resources, R)}

C9_RoleStep ==
    (pc = "apply" /\ pc' = "returned") =>
        \A r \in downloads' :
            r.version_local # VersionLocalAt(downloads, RowKey(r)) =>
                \E t \in Downloaded : TaskKey(t) = RowKey(r)

\* C9: no two rows share (resource_id, parent_id); after a full sync a
\* resource R that is opted in standalone and is an opted-in dependency of
\* an opted-in parent P has exactly the rows (R, 0) and (R, P); and the
\* version update of one role leaves version_local of the other alone.
C9_TwoRowsIndependent == [][C9_Unique /\ C9_TwoRoles /\ C9_RoleStep]_vars

\* C10: after a full sync whose fetches succeeded, whatever the store held
\* before, there is a row (S, 0) for every opted-in special S and a row
\* (D, P) for every opted-in dependency D of an opted-in parent P; with 151
\* and 153 opted in the rows are exactly 151/0, 153/0, 153/151, 1865/151.
C10_FullSyncRows ==
    FullSyncDone =>
        /\ \A S \in opted_in_specials(special_resources) : HasRow(downloads, S, 0)
        /\ \A P \in opted_in_specials(special_resources) :
              \A D \in OptedInDependencies(special_resources, P) :
                  HasRow(downloads, D, P)
        /\ special_resources = SpecialResources(TRUE, TRUE) =>
              {RowKey(r) : r \in downloads}
                  = {<<R151, 0>>, <<R153, 0>>, <<R153, R151>>, <<R1865, R151>>}

\* A targeted sync for the opted-in special P on an empty store, with every
\* fetch answered, has committed and queued its downloads.
TargetedOnEmpty(P) ==
    /\ pc = "download"
    /\ ~resource_ids.full
    /\ resource_ids.ids = {P}
    /\ special_resources[P].opt_in
    /\ obs.start_rows = {}
    /\ ~obs.fetch_failed

\* The k+1 rows of P: (P, 0) and (D, P) for each opted-in dependency D.
ParentAndDependencyKeys(P) ==
    {<<P, 0>>} \cup {<<D, P>> : D \in OptedInDependencies(special_resources, P)}

\* Neither P nor one of its dependencies has a second role.
SingleRoles(P) ==
    /\ dependency_parents(special_resources, P) = {}
    /\ \A D \in OptedInDependencies(special_resources, P) :
          /\ D \notin opted_in_specials(special_resources)
          /\ dependency_parents(special_resources, D) = {P}

\* C11: on an empty store a targeted sync for an opted-in special P with k
\* opted-in dependencies inserts exactly the k+1 rows (P, 0) and (D, P) and
\* makes exactly k+1 download calls.
C11_TargetedRows ==
    \A P \in Targets :
        TargetedOnEmpty(P) =>
            /\ {RowKey(r) : r \in downloads} = ParentAndDependencyKeys(P)
            /\ {TaskKey(t) : t \in DOMAIN dl} = ParentAndDependencyKeys(P)
            /\ Cardinality(DOMAIN dl)
                  = Cardinality(OptedInDependencies(special_resources, P)) + 1

\* C11 as amended: the same, when neither P nor one of its dependencies is
\* opted in under a second role (a dependency that is also a standalone
\* special, or P being itself a dependency of an opted-in parent).
C11_TargetedRowsSingleRoles ==
    \A P \in Targets :
        (TargetedOnEmpty(P) /\ SingleRoles(P)) =>
            /\ {RowKey(r) : r \in downloads} = ParentAndDependencyKeys(P)
            /\ {TaskKey(t) : t \in DOMAIN dl} = ParentAndDependencyKeys(P)
            /\ Cardinality(DOMAIN dl)
                  = Cardinality(OptedInDependencies(special_resources, P)) + 1

\* The targeted sync for 151, with only 151 opted in, has queued 151, 153
\* and 1865.
C11_Witness ==
    /\ TargetedOnEmpty(R151)
    /\ SingleRoles(R151)
    /\ Cardinality(DOMAIN dl) = 3
    /\ Cardinality(downloads) = 3

\* The final path of task t was not written and no temp file of t is left.
NoFileOf(t) ==
    /\ files[TaskKey(t)] = "absent"
    /\ \A f \in tmpfiles : f[1] # TaskKey(t)

C12_State ==
    \A m \in obs.hash_failed :
        LET t == m[1]
        IN  /\ t.file_hash # NoHash
            /\ lower(strip(RawHash(t.resource_id))) # m[2]
            /\ dl[t].st = "error"
            /\ <<t.resource_id, "error">> \in download_results
            /\ \A u \in pending_updates :
                  ~(u[1] = t.resource_id /\ u[4] = t.parent_resource_id)
            /\ NoFileOf(t)
            /\ VersionLocalAt(downloads, TaskKey(t))
                  = VersionLocalAt(obs.start_rows, TaskKey(t))

C12_Step ==
    \A m \in obs.hash_failed :
        m \in obs'.hash_failed => dl'[m[1]] = dl[m[1]]

\* C12: a download whose body digest differs from the expected hash (the
\* API's hash, stripped and lower-cased) is not attempted again, leaves no
\* temp file and no file at the final path, is reported as error, and the
\* version_local of its row stays what it was when the run started.
C12_HashMismatch == [][C12_State' /\ C12_Step]_vars

\* The run has returned with the task of 151, whose hash the API sends in
\* upper case, failed on the hash check at its first attempt.
C12_Witness ==
    /\ pc = "returned"
    /\ \E m \in obs.hash_failed :
          /\ m[1].resource_id = R151
          /\ dl[m[1]].attempt = 1
          /\ dl[m[1]].st = "error"

\* C13: a task whose archive failed the integrity check or a size or
\* entry-count guard is reported as error and not as downloaded, its archive
\* is deleted with nothing extracted, and the version_local of its row stays
\* what it was when the run started.
C13_RejectedArchive ==
    \A t \in obs.rejected :
        /\ dl[t].st = "error"
        /\ <<t.resource_id, "error">> \in download_results
        /\ <<t.resource_id, "downloaded">> \notin download_results
        /\ NoFileOf(t)
        /\ VersionLocalAt(downloads, TaskKey(t))
              = VersionLocalAt(obs.start_rows, TaskKey(t))

\* The path member i of the archive is written to, in the mode of the run.
TargetOf(i) ==
    IF unzip.should_flatten
    THEN normpath(extract_to \o <<basename(unzip.infolist[i])>>)
    ELSE normpath(join(extract_to, unzip.infolist[i]))

\* Member i is a file entry (in flatten mode: has a basename).
FileEntry(i) == ~unzip.infolist[i].dir

\* The path is the extraction root or lies below it.
UnderRoot(path) ==
    /\ Len(path) >= Len(extract_to)
    /\ \A k \in DOMAIN extract_to : path[k] = extract_to[k]

Outside(fs) == {f \in fs : ~UnderRoot(f.path)}

\* C14: in both modes nothing is written or created outside the extraction
\* root; a member whose target escapes the root leaves the disk as it is and
\* the loop goes on; and when the loop has ended, every file member whose
\* target is inside the root has a file at its target.
C14_Inside ==
    /\ Outside(unzip.files) = Outside(unzip.before)
    /\ \A x \in unzip.dirs : x \in Prefixes(extract_to) \/ UnderRoot(x)
    /\ unzip.pc = "done" =>
          \A i \in DOMAIN unzip.infolist :
              (FileEntry(i) /\ UnderRoot(TargetOf(i))) =>
                  isfile(unzip, TargetOf(i))

C14_Step ==
    (unzip.pc = "extracting" /\ ~UnderRoot(TargetOf(unzip.member))) =>
        /\ unzip'.files = unzip.files
        /\ unzip'.dirs = unzip.dirs
        /\ unzip'.pc # "raised"
        /\ unzip'.member = unzip.member + 1

C14_PathSafety == [][C14_Inside' /\ C14_Step]_vars

\* A structured extraction has ended: its first member escaped the root and
\* was skipped, and a later member was written.
C14_Witness ==
    /\ unzip.pc = "done"
    /\ ~unzip.should_flatten
    /\ ~UnderRoot(TargetOf(1))
    /\ \E i \in DOMAIN unzip.infolist :
          /\ i > 1
          /\ [path |-> TargetOf(i), content |-> "new"] \in unzip.files

ProtectedName(n) ==
    LowerName(n) \in {LowerName(f) : f \in unzip.protected_files}

\* C15: a file with a protected name that was in the folder before the
\* extraction is there unchanged, in both modes and whatever the members;
\* and when the loop has ended, a member with a protected name whose target
\* was not there before has been extracted.
C15_ProtectedKept ==
    /\ \A f \in unzip.before :
          ProtectedName(f.path[Len(f.path)]) => f \in unzip.files
    /\ unzip.pc = "done" =>
          \A i \in DOMAIN unzip.infolist :
              (/\ FileEntry(i)
               /\ ProtectedName(basename(unzip.infolist[i]))
               /\ UnderRoot(TargetOf(i))
               /\ ~\E f \in unzip.before :
                      Fold(unzip, f.path) = Fold(unzip, TargetOf(i))) =>
                  \E f \in unzip.files :
                      /\ Fold(unzip, f.path) = Fold(unzip, TargetOf(i))
                      /\ f.content = "new"

\* The phase a run is in, in the order of the pipeline.
Phase ==
    [idle |-> 0, fetch |-> 1, store |-> 2, queue |-> 3, commit |-> 4,
     download |-> 5, apply |-> 6, returned |-> 7]

C16_State ==
    \* the upserts work on what the finished fetch returned
    /\ pc = "fetch" => (fetched_data = NoData /\ txn = NoTxn)
    \* no download exists before the ingest transaction is committed
    /\ Phase[pc] < Phase["download"] =>
          (dl = <<>> /\ tmpfiles = {} /\ pending_updates = {})
    \* in the download stage the ingest transaction is closed and the row of
    \* every queued task is committed
    /\ pc = "download" =>
          /\ txn = NoTxn
          /\ \A t \in tasks :
                /\ HasRow(downloads, TaskKey(t)[1], TaskKey(t)[2])
                /\ RowAt(downloads, TaskKey(t)[1], TaskKey(t)[2]).version_remote
                      = t.remote_version
    \* the version-update transaction is open only when every download settled
    /\ pc = "apply" =>
          \A t \in DOMAIN dl : dl[t].st \in {"downloaded", "error"}

C16_Step ==
    \* a run moves forward through the phases, or returns
    /\ (pc # "idle" /\ pc' # "idle") =>
          (Phase[pc'] = Phase[pc] \/ Phase[pc'] = Phase[pc] + 1 \/ pc' = "returned")
    \* rows are committed by the ingest transaction and by the batch only
    /\ downloads' # downloads => pc \in {"idle", "commit", "apply"}
    \* what was fetched does not change once the upserts started
    /\ (Phase[pc] >= Phase["store"] /\ pc' # "idle") => fetched_data' = fetched_data

\* C16: the phases of a run are ordered: the fetch is complete before the
\* first upsert, the upserts and the reconcile are committed before the
\* first download starts, and the version-update transaction begins only
\* when every download of the run has settled as downloaded or error.
C16_PhasesOrdered == [][C16_State' /\ C16_Step]_vars

\* The version-update transaction is open after one download of the run
\* succeeded and another ended in error.
C16_Witness ==
    /\ pc = "apply"
    /\ Downloaded # {}
    /\ Errored # {}

\* The reconcile step of a full sync has run: txn.rows are the rows it left.
Reconciled == pc = "commit" /\ resource_ids.full

\* The dependency set of the configuration: (parent, dependency), both
\* opted in.
DependencyPairs ==
    {<<P, D>> : P \in opted_in_specials(special_resources), D \in Ids} \cap
    {pd \in Ids \X Ids : pd[2] \in OptedInDependencies(special_resources, pd[1])}

\* The resources the catalog lists now: watched, licensed or opted in.
Listed == rgwatched \cup licenses \cup opted_in_specials(special_resources)

\* C17: after the reconcile step of a full sync every dependency row is a
\* pair of the current dependency set, also when that set is empty.
C17_NoStaleDependencyRows ==
    Reconciled =>
        \A r \in txn.rows :
            r.parent_id # 0 => <<r.parent_id, r.resource_id>> \in DependencyPairs

\* C18: after the reconcile step of a full sync every root row flagged
\* is_licensed or is_special is a resource the catalog lists now, also when
\* it lists none.
C18_NoStaleFlaggedRoots ==
    Reconciled =>
        \A r \in txn.rows :
            (r.parent_id = 0 /\ (r.is_licensed \/ r.is_special)) =>
                r.resource_id \in Listed

\* C19: a watched root row whose resource the catalog no longer lists is
\* kept by the reconcile step with is_watching false and its version_local;
\* and a root row that was not watching, of a resource that is watched again
\* at the remote version the row has as version_local, is skipped by the
\* full sync.
C19_DemotedNotDeleted ==
    Reconciled =>
        /\ \A r \in obs.start_rows :
              (r.parent_id = 0 /\ r.is_watching /\ r.resource_id \notin Listed) =>
                  \E k \in txn.rows :
                      /\ RowKey(k) = RowKey(r)
                      /\ ~k.is_watching
                      /\ k.version_local = r.version_local
        /\ \A r \in obs.start_rows :
              (/\ r.parent_id = 0
               /\ ~r.is_watching
               /\ r.resource_id \in rgwatched
               /\ r.version_local = remote_version[r.resource_id]) =>
                  \A t \in tasks : TaskKey(t) = RowKey(r) => ~needs_download(t)

FlaggedRoots(db) ==
    {r \in db : r.parent_id = 0 /\ (r.is_watching \/ r.is_special \/ r.is_licensed)}

\* C20: the queue of a full sync is the root rows with a flag set and every
\* dependency row of the store.
C20_QueueRows ==
    Reconciled =>
        {TaskKey(t) : t \in tasks}
            = {RowKey(r) : r \in FlaggedRoots(txn.rows)}
              \cup {RowKey(r) : r \in {x \in txn.rows : x.parent_id # 0}}

\* The dependency rows whose parent has a root row.
ParentedDeps(db) ==
    {d \in db : d.parent_id # 0
                /\ \E p \in db : p.parent_id = 0 /\ p.resource_id = d.parent_id}

\* C20 as amended: the queue of a full sync is the root rows with a flag set
\* and the dependency rows whose parent has a root row; when there is none
\* of either, it is every root row.
C20_QueueRowsParented ==
    Reconciled =>
        LET main == {RowKey(r) : r \in FlaggedRoots(txn.rows)}
                    \cup {RowKey(r) : r \in ParentedDeps(txn.rows)}
        IN  {TaskKey(t) : t \in tasks}
                = IF main # {} THEN main
                  ELSE {RowKey(r) : r \in {x \in txn.rows : x.parent_id = 0}}

\* The queue of a full sync holds a task and leaves out a dependency row
\* whose parent has no root row.
C20_Witness ==
    /\ Reconciled
    /\ tasks # {}
    /\ \E d \in txn.rows :
          /\ d.parent_id # 0
          /\ d \notin ParentedDeps(txn.rows)
          /\ \A t \in tasks : TaskKey(t) # RowKey(d)

\* A targeted sync that was not cancelled has returned.
TargetedDone == pc = "returned" /\ ~resource_ids.full /\ NotCancelled

\* The requested id R is not opted in itself and is an opted-in dependency
\* of an opted-in parent.
OnlyDependency(R) ==
    /\ R \notin opted_in_specials(special_resources)
    /\ dependency_parents(special_resources, R) # {}

\* C21: a targeted sync whose requested ids yield no queue rows returns
\* false and makes no download attempt (no download is started, no file or
\* temp file is written, no outcome is reported, no version update is
\* collected); on an empty store this is the case when the fetch of the
\* requested resource returns nothing and when the requested id is only a
\* dependency of another parent.
C21_NoTasksMeansFalse ==
    /\ (TargetedDone /\ tasks = {}) =>
          /\ ret = "false"
          /\ dl = <<>>
          /\ ~AttemptsMade
          /\ download_results = {}
          /\ pending_updates = {}
          /\ tmpfiles = {}
          /\ \A k \in Keys : files[k] = "absent"
          /\ obs.apply = "none"
    /\ (TargetedDone /\ obs.start_rows = {}) =>
          \A R \in resource_ids.ids :
              (OnlyDependency(R)
               \/ \A p \in fetched_data.special_resources_data
                            \cup fetched_data.watched_resources :
                      p.resource_id # R) => tasks = {}

\* A targeted sync for 153, which is not opted in and is a dependency of the
\* opted-in 151, stored the row 153/151, found no task and returned false.
C21_Witness ==
    /\ TargetedDone
    /\ resource_ids.ids = {R153}
    /\ OnlyDependency(R153)
    /\ HasRow(downloads, R153, R151)
    /\ tasks = {}
    /\ ret = "false"

\* The status map compute_special_status returned.
Status == fetched_data.special_resource_status

\* The entry of id r in the configuration is opted in.
EntryOptedIn(r) ==
    r \in DOMAIN special_resources /\ special_resources[r].opt_in

\* The opted-in parents whose dependency entry for d is itself opted in.
OptedInParentsOf(d) ==
    {p \in Ids : /\ EntryOptedIn(p)
                 /\ d \in DOMAIN special_resources[p].dependencies
                 /\ special_resources[p].dependencies[d].opt_in}

StatusFlags ==
    \A r \in DOMAIN Status :
        /\ Status[r].is_special = EntryOptedIn(r)
        /\ Status[r].parent_ids = OptedInParentsOf(r)
        /\ Status[r].is_dependency = (OptedInParentsOf(r) # {})

\* C22: compute_special_status(None) returns exactly the ids that are
\* opted-in specials or opted-in dependencies of an opted-in parent; for
\* every returned id is_special holds iff its own entry is opted in,
\* parent_ids is the set of opted-in parents whose dependency entry for it
\* is opted in, and is_dependency holds iff parent_ids is not empty.
C22_StatusOfAll ==
    (pc = "resolved" /\ resource_ids.full) =>
        /\ DOMAIN Status
              = {r \in Ids : EntryOptedIn(r) \/ OptedInParentsOf(r) # {}}
        /\ StatusFlags

\* An id is returned with both flags true and one parent, while a second
\* opted-in parent declares it with the dependency entry opted out.
C22_Witness ==
    /\ pc = "resolved"
    /\ resource_ids.full
    /\ \E r \in DOMAIN Status :
          /\ Status[r].is_special
          /\ Status[r].is_dependency
          /\ \E p \in Ids \ Status[r].parent_ids :
                /\ EntryOptedIn(p)
                /\ r \in DOMAIN special_resources[p].dependencies

\* C23: for explicit candidate ids C, compute_special_status returns
\* exactly C and the opted-in dependencies of the opted-in parents in C
\* (the dependencies of a dependency that was pulled in are not added); a
\* candidate that is neither special nor a dependency is returned with both
\* flags false and no parent; and parent_ids lists every opted-in parent,
\* also those outside C.
C23_StatusOfCandidates ==
    (pc = "resolved" /\ ~resource_ids.full) =>
        /\ DOMAIN Status
              = resource_ids.ids
                \cup {d \in Ids : OptedInParentsOf(d) \cap resource_ids.ids # {}}
        /\ StatusFlags
        /\ \A r \in resource_ids.ids :
              (~EntryOptedIn(r) /\ OptedInParentsOf(r) = {}) =>
                  Status[r] = [is_special |-> FALSE, is_dependency |-> FALSE,
                               parent_ids |-> {}]

\* One candidate pulled in its dependency d; d is opted in and has an
\* opted-in dependency of its own, which is not returned; and d has a
\* second opted-in parent, outside the candidates, in its parent_ids.
C23_Witness ==
    /\ pc = "resolved"
    /\ ~resource_ids.full
    /\ \E d \in DOMAIN Status \ resource_ids.ids :
          /\ EntryOptedIn(d)
          /\ \E e \in Ids \ DOMAIN Status : d \in OptedInParentsOf(e)
          /\ Status[d].parent_ids \ resource_ids.ids # {}

\* The license pass has run over fetched_data.licensed_resources.
LicensedPassDone == pc = "licensed"

\* The license is for a plugin (parent category 11) outside LIVE.
GatedOut(l) == l.resource.category_id = 11 /\ ENV \in {"TEST", "EMU"}

\* How often the upsert was called for license l.
UpsertsOf(l) ==
    Cardinality({i \in DOMAIN obs.licensed.inserted :
                    obs.licensed.inserted[i] = l.license_id})

C24_GatedLeftOut ==
    LicensedPassDone =>
        \A l \in fetched_data.licensed_resources :
            GatedOut(l) =>
                /\ UpsertsOf(l) = 0
                /\ ~HasRow(txn.rows, l.resource.resource_id, 0)
                /\ <<None, l.resource.resource_id>> \notin obs.licensed.current_ids

LicensesFor(l) ==
    {x \in fetched_data.licensed_resources :
        x.resource.resource_id = l.resource.resource_id}

TempsOf(t) == {f \in tmpfiles : f[1] = TaskKey(t)}

\* The attempt of t that is streaming, and its temp file, if any.
StreamingTemp(t) ==
    IF dl[t].st = "streaming" THEN {<<TaskKey(t), dl[t].attempt>>} ELSE {}

C25_State ==
    \A t \in DOMAIN dl :
        \* at most three attempts
        /\ dl[t].attempt \in 1..3
        \* every attempt but the first follows a timeout, network error or
        \* HTTP status error of the attempt before it
        /\ \A a \in 1..(dl[t].attempt - 1) : <<t, a, "http">> \in obs.failures
        \* the failed attempts have left no temp file: the only temp file of
        \* t is the one the attempt under way streams into
        /\ NotCancelled => TempsOf(t) \subseteq StreamingTemp(t)
        \* after the third failure the task is reported as error
        /\ <<t, 3, "http">> \in obs.failures =>
              (dl[t].st = "error" /\ <<t.resource_id, "error">> \in download_results)
        \* and the run goes on to settle every task
        /\ (pc \in {"apply", "returned"} /\ NotCancelled) =>
              dl[t].st \in {"downloaded", "error"}

C25_Step ==
    \A t \in DOMAIN dl :
        t \in DOMAIN dl' =>
            \* an attempt that starts streams into a temp file that was not
            \* there, and leaves the final path alone
            /\ (dl[t].st = "queued" /\ dl'[t].st = "streaming") =>
                  /\ <<TaskKey(t), dl'[t].attempt>> \notin tmpfiles
                  /\ <<TaskKey(t), dl'[t].attempt>> \in tmpfiles'
                  /\ files' = files
            \* the attempt number grows by one, and only on an "http" failure
            /\ dl'[t].attempt # dl[t].attempt =>
                  /\ dl'[t].attempt = dl[t].attempt + 1
                  /\ <<t, dl[t].attempt, "http">> \in obs'.failures

\* C25: a download is attempted at most 3 times; a further attempt follows
\* only a timeout, network error or HTTP status error of the attempt before
\* it; every attempt streams into a fresh temp file and a failed attempt
\* leaves no temp file behind; after the third failure the task is reported
\* as error and the run continues.
C25_Retry == [][C25_State' /\ C25_Step]_vars

\* The failures of a download attempt that are not a cancellation and
\* happen before or at the final rename.
AttemptFailures ==
    {m \in obs.failures : m[3] \in {"http", "disk", "hash", "rename"}}

C30_State ==
    NotCancelled =>
        \A m \in AttemptFailures : <<TaskKey(m[1]), m[2]>> \notin tmpfiles

C30_Step ==
    \A t \in DOMAIN dl :
        (pc' # "idle" /\ files'[TaskKey(t)] # files[TaskKey(t)]) =>
            /\ dl[t].st = "streaming"
            /\ <<TaskKey(t), dl[t].attempt>> \in tmpfiles
            /\ <<TaskKey(t), dl[t].attempt>> \notin tmpfiles'
            /\ \E actual \in Digests :
                  t.file_hash = NoHash \/ actual = t.file_hash
            /\ \A m \in AttemptFailures' : m \in AttemptFailures \/ m[1] # t

\* C30: after a failure of a download attempt that is not a cancellation
\* (stream error, disk-space abort, hash mismatch, failure of the final
\* rename), whether a file is at the final path or not, no temp file of that
\* attempt remains and the final path is as it was; the final path changes
\* only by the rename of a completely streamed and verified temp file.
C30_NoStrayTemp == [][C30_State' /\ C30_Step]_vars

\* The items of the pages from p on, leaving out the pages in `without`.
RECURSIVE ItemsFrom(_, _, _)
ItemsFrom(pages, without, p) ==
    IF p > Len(pages) THEN <<>>
    ELSE (IF p \in without THEN <<>> ELSE pages[p])
         \o ItemsFrom(pages, without, p + 1)

\* C26: when the fetch of one page k of an n-page watched or license
\* listing fails, the listing returned is the concatenation of the items of
\* all the other pages.
C26_OnePageLost ==
    (pc = "listed" /\ Cardinality(obs.listing.failed) = 1) =>
        obs.listing.items = ItemsFrom(obs.listing.pages, obs.listing.failed, 1)

\* The ids whose payload the sync fetched.
FetchedIds == {p.resource_id : p \in fetched_data.special_resources_data}

\* The store holds the current remote file of S in the root row of S.
RootCurrent(db, S) ==
    HasRow(db, S, 0) /\ RowAt(db, S, 0).version_remote = remote_version[S]

\* C27: whatever full syncs, targeted syncs of other resources and failed
\* resource fetches came before, a full sync whose fetches are answered
\* leaves the root row of every opted-in special S with the version of the
\* current remote file, and it skips the fetch of S only when the root row
\* of S was in the store with that version.
C27_ChangedIsFetched ==
    (Reconciled /\ ~obs.fetch_failed) =>
        \A S \in opted_in_specials(special_resources) :
            /\ RootCurrent(txn.rows, S)
            /\ S \notin FetchedIds => RootCurrent(obs.start_rows, S)

\* The watched and licensed resources the remote side lists now.
StillListed == rgwatched \cup licenses

\* C28: the reconcile step of a full sync deletes a licensed root row and
\* demotes a watched root row only when the remote listing no longer
\* contains the resource, also when the request of a watched or license
\* page failed.
C28_ListedRowsKept ==
    Reconciled =>
        \A r \in obs.start_rows :
            (r.parent_id = 0 /\ r.resource_id \in StillListed) =>
                /\ r.is_licensed => HasRow(txn.rows, r.resource_id, 0)
                /\ r.is_watching =>
                      (HasRow(txn.rows, r.resource_id, 0)
                       /\ RowAt(txn.rows, r.resource_id, 0).is_watching)

\* C29: when two runs on the same store and download folder have both
\* returned, no row's version_local is greater than the file id that the
\* last completed rename placed at the row's final path.
BothReturned == \A run \in Runs : pc[run] = "returned"

C29_StoreNotAheadOfDisk ==
    BothReturned =>
        \A r \in downloads : r.version_local <= files[RowKey(r)]

\* C31: when a statement of the ingest transaction fails, the store is what
\* it was when the run started (rows and last_fetch_time), the error leaves
\* run_sync, and no download is attempted: no task is queued for download,
\* no file or temp file is written, no result and no version update is
\* recorded, neither in the failing step nor afterwards.
C31_Step ==
    (pc \in {"store", "queue"} /\ pc' \notin {"store", "queue", "commit"}) =>
        /\ ret' = "raised"
        /\ pc' = "returned"
        /\ downloads' = obs.start_rows
        /\ last_fetch_time' = obs.start_lft

C31_After ==
    ret = "raised" =>
        /\ pc' \in {"returned", "idle"}
        /\ downloads' = downloads
        /\ last_fetch_time' = last_fetch_time
        /\ files' = [k \in Keys |-> "absent"]
        /\ tmpfiles' = {}
        /\ DOMAIN dl' = {}
        /\ download_results' = {}
        /\ pending_updates' = {}

C31_IngestFailureRollsBack == [][C31_Step /\ C31_After]_vars

\* A second run fails in its transaction after its upserts changed a row of
\* a store that was not empty.
C31_Witness ==
    /\ ret = "raised"
    /\ obs.start_rows # {}
    /\ _store_fetched_data_async(obs.start_rows, fetched_data, ENV) # obs.start_rows

\* C32: at every moment of the download stage at most 6 downloads hold an
\* open connection to the server.
C32_AtMostSixConnected ==
    pc = "download" => Cardinality(Streaming) <= 6

\* C33: the write of an archive member is attempted at most 3 times, and a
\* further attempt follows only a permission error; when the third attempt
\* fails the extraction raises, nothing more of the archive is extracted,
\* the task is reported as error with its version_local unchanged, and the
\* other tasks of the run are downloaded and recorded.
ExtractFailed == {f[1] : f \in {x \in obs.failures : x[3] = "extract"}}

C33_State ==
    /\ unzip.pc # "idle" => \A i \in DOMAIN unzip.writes : unzip.writes[i] <= 3
    /\ (pc = "returned" /\ obs.apply # "failed") =>
          \A t \in ExtractFailed :
              /\ <<t.resource_id, "error">> \in download_results
              /\ dl[t].st = "error"
              /\ VersionLocalAt(downloads, TaskKey(t)) = t.local_version
              /\ \A sibling \in DOMAIN dl \ {t} :
                    /\ dl[sibling].st = "downloaded"
                    /\ <<sibling.resource_id, "downloaded">> \in download_results
                    /\ VersionLocalAt(downloads, TaskKey(sibling))
                           = sibling.remote_version

C33_Step ==
    /\ (unzip.pc = "extracting" /\ unzip'.pc = "extracting" /\ unzip' # unzip
            /\ unzip'.member = unzip.member) =>
          (unzip'.last = "PermissionError" /\ unzip.attempt < 3
             /\ unzip'.attempt = unzip.attempt + 1)
    /\ (unzip.pc = "extracting" /\ unzip' # unzip /\ unzip.attempt = 3
            /\ unzip'.last = "PermissionError"
            /\ unzip'.writes # unzip.writes) =>
          unzip'.pc = "raised"
    /\ (unzip.pc = "extracting" /\ unzip' # unzip
            /\ unzip'.last = "OSError") =>
          unzip'.pc = "raised"
    /\ unzip.pc \in {"raised", "closed"} =>
          /\ unzip'.pc \in {unzip.pc, "closed"}
          /\ unzip'.files = unzip.files
          /\ unzip'.dirs = unzip.dirs
          /\ unzip'.writes = unzip.writes
          /\ unzip'.member = unzip.member

C33_MemberRetries == [][C33_State' /\ C33_Step]_vars

\* The run returned after the third attempt at a member failed with a
\* permission error, beside a task that was downloaded.
C33_Witness ==
    /\ pc = "returned"
    /\ ExtractFailed # {}
    /\ unzip.pc = "closed"
    /\ unzip.last = "PermissionError"
    /\ \E i \in DOMAIN unzip.writes : unzip.writes[i] = 3
    /\ unzip.member < Len(unzip.infolist)
    /\ \E t \in DOMAIN dl : dl[t].st = "downloaded"

\* C34: a catalog JSON request is attempted at most 3 times and retried only
\* after a network-level error; an HTTP 4xx or 5xx status fails it after a
\* single attempt; its failure reaches the run as a missing resource or an
\* empty page, and the run does not raise.
C34_CatalogRequest ==
    /\ request.attempt <= 3
    /\ request.attempt > 1 =>
          \E seen \in SUBSET {"TimeoutException", "ConnectError"} :
              request.errors \in {seen, seen \cup {"HTTPStatusError"},
                                  seen \cup {"JSONDecodeError"}}
    /\ (request.st \in {"raised", "done"} /\ "HTTPStatusError" \in request.errors
          /\ Cardinality(request.errors) = 1) => request.attempt = 1
    /\ request.st = "done" => request.result \in {"None", "empty page"}
    /\ ret # "raised"

\* C35: fetch_manifest_cached asks the network only when neither the
\* in-process cache nor the disk cache holds a manifest, stores the manifest
\* it fetched in both caches, and never returns a manifest that was fetched
\* from the network more than 5 minutes (300 seconds) earlier, a manifest
\* promoted from the disk cache included.
C35_ManifestCache ==
    net.from # "none" =>
        /\ net.from = "network" <=> (~net.held_memory /\ ~net.held_disk)
        /\ net.from = "network" =>
              /\ net.manifest_cache = net.returned
              /\ net.manifest_disk_cache = net.returned
        /\ net.clock - net.returned.fetched <= 300

\* The keys (resource_id, parent_id) a targeted sync of `ids` may write under
\* the configuration sr: the root row of each requested id, and the row of
\* each dependency under its opted-in parent, for the requested ids and the
\* opted-in dependencies of the requested opted-in parents.
C36_Resolved(sr, ids) ==
    ids \cup UNION {{d \in DOMAIN sr[p].dependencies :
                        sr[p].dependencies[d].opt_in} :
                    p \in {x \in ids : sr[x].opt_in}}

C36_Pairs(sr, ids) ==
    {<<r, 0>> : r \in ids}
    \cup UNION {{<<d, p>> : p \in {x \in DOMAIN sr :
                                     /\ sr[x].opt_in
                                     /\ d \in DOMAIN sr[x].dependencies
                                     /\ sr[x].dependencies[d].opt_in}} :
                d \in C36_Resolved(sr, ids)}

\* The commit of a targeted sync's ingest transaction.
C36_Step == pc = "commit" /\ ~resource_ids.full /\ downloads' # downloads

C36_Roles(sr, ids) ==
    C36_Pairs(sr, ids)
    \cup {<<d, 0>> : d \in {x \in C36_Resolved(sr, ids) : sr[x].opt_in}}

C37_EventsOf(t, kind) ==
    {i \in DOMAIN events.log :
        events.log[i].task = t /\ events.log[i].kind = kind}

\* The queue was built and the run went through the loop over its tasks.
C37_Queued == pc \in {"download", "apply", "returned"} /\ tasks # {}

\* C37: in a run that is not cancelled every task of the queue produces
\* exactly one done event, with detail downloaded, error or skipped; a task
\* that needs a download produces exactly one start event before its done
\* event, and every start event precedes the first download; a skipped task
\* produces no start event; without a callback nothing is emitted and the
\* results of the run are the same.
C37_Events ==
    /\ (C37_Queued /\ events.on_event) =>
          \A t \in tasks :
              /\ Cardinality(C37_EventsOf(t, "done")) <= 1
              /\ Cardinality(C37_EventsOf(t, "start"))
                    = IF t.local_version = None
                         \/ t.local_version < t.remote_version
                      THEN 1 ELSE 0
              /\ \A i \in C37_EventsOf(t, "start"), j \in C37_EventsOf(t, "done") :
                    i < j
    /\ \A i, j \in DOMAIN events.log :
          (events.log[i].kind = "start"
             /\ events.log[j].detail \in {"downloaded", "error"}) => i < j
    /\ (pc = "returned" /\ tasks # {} /\ events.on_event) =>
          \A t \in tasks :
              \E j \in DOMAIN events.log :
                  /\ C37_EventsOf(t, "done") = {j}
                  /\ events.log[j].resource_id = t.resource_id
                  /\ events.log[j].detail =
                        IF t \in DOMAIN dl THEN dl[t].st ELSE "skipped"
                  /\ events.log[j].detail \in {"downloaded", "error", "skipped"}
    /\ ~events.on_event => events.log = <<>>
    /\ (pc = "returned" /\ tasks # {}) =>
          /\ \A t \in tasks :
                t \in DOMAIN dl <=> (t.local_version = None
                                     \/ t.local_version < t.remote_version)
          /\ download_results =
                {<<t.resource_id, IF t \in DOMAIN dl THEN dl[t].st ELSE "skipped">> :
                    t \in tasks}
          /\ \A t \in DOMAIN dl : dl[t].st \in {"downloaded", "error"}

\* A run with a callback returned after one task was skipped, one was
\* downloaded and one failed.
C37_Witness ==
    /\ pc = "returned"
    /\ events.on_event
    /\ \A d \in {"skipped", "downloaded", "error"} :
          \E i \in DOMAIN events.log : events.log[i].detail = d

\* C38: while the remote version of a resource never decreases, every row
\* has 0 <= version_local <= version_remote, whatever the interleaving of
\* upserts, version-update batches of concurrent or stale runs and resets;
\* so a row needs no download exactly when the two versions are equal.
C38_LocalWithinRemote ==
    \A r \in downloads :
        /\ 0 <= r.version_local
        /\ r.version_local <= r.version_remote
        /\ ~(r.version_local < r.version_remote)
              <=> r.version_local = r.version_remote

\* A full sync is under way that started on a store as reset_download_dates
\* leaves it: rows, each with version_local 0, and last_fetch_time 0.
C39_AfterReset ==
    /\ resource_ids.full
    /\ obs.start_lft = 0
    /\ obs.start_rows # {}
    /\ \A r \in obs.start_rows : r.version_local = 0

\* What reset_download_dates leaves of the rows `before`: the same keys,
\* every column but version_local as it was, version_local 0.
C39_ResetOf(before, after) ==
    /\ {<<r.resource_id, r.parent_id>> : r \in after}
          = {<<r.resource_id, r.parent_id>> : r \in before}
    /\ Cardinality(after) = Cardinality(before)
    /\ \A r \in after :
          /\ r.version_local = 0
          /\ \E q \in before : [q EXCEPT !.version_local = 0] = r

\* C39: reset_download_dates sets version_local of every row and
\* last_fetch_time to 0, deletes no row and changes no version_remote and no
\* flag; the full sync that follows requests the payload of every special or
\* dependency id the manifest lists, and queues for download every tracked
\* row (a dependency row, or a root row that is watched, special or
\* licensed) that has a positive version_remote.
C39_ResetThenFullSync ==
    /\ [][reset_download_dates =>
             last_fetch_time' = 0 /\ C39_ResetOf(downloads, downloads')]_vars
    /\ []((C39_AfterReset /\ pc = "store" /\ ~obs.fetch_failed) =>
             {p.resource_id : p \in fetched_data.special_resources_data}
                = {rid \in DOMAIN fetched_data.special_resource_status :
                       rid \in DOMAIN last_update})
    /\ []((C39_AfterReset /\ pc = "download") =>
             \A r \in downloads :
                 (r.version_remote > 0
                    /\ (r.parent_id # 0
                          \/ r.is_watching \/ r.is_special \/ r.is_licensed)) =>
                     \E t \in DOMAIN dl : TaskKey(t) = <<r.resource_id, r.parent_id>>)

\* C39 (amended): as C39, the rows queued for download being the watched,
\* special or licensed root rows and the dependency rows whose parent has a
\* root row in the store.
C39_ResetThenFullSyncParented ==
    /\ [][reset_download_dates =>
             last_fetch_time' = 0 /\ C39_ResetOf(downloads, downloads')]_vars
    /\ []((C39_AfterReset /\ pc = "store" /\ ~obs.fetch_failed) =>
             {p.resource_id : p \in fetched_data.special_resources_data}
                = {rid \in DOMAIN fetched_data.special_resource_status :
                       rid \in DOMAIN last_update})
    /\ []((C39_AfterReset /\ pc = "download") =>
             \A r \in downloads :
                 (r.version_remote > 0
                    /\ IF r.parent_id = 0
                       THEN r.is_watching \/ r.is_special \/ r.is_licensed
                       ELSE \E q \in downloads :
                               q.resource_id = r.parent_id /\ q.parent_id = 0) =>
                     \E t \in DOMAIN dl : TaskKey(t) = <<r.resource_id, r.parent_id>>)

\* After a run that downloaded a parent and a dependency, and a reset, the
\* full sync that followed queued both again.
C39_Witness ==
    /\ C39_AfterReset
    /\ pc = "download"
    /\ runs = 2
    /\ \E t, u \in DOMAIN dl :
          /\ t.parent_resource_id = None
          /\ u.parent_resource_id = t.resource_id
    /\ \A r \in downloads : r.version_local = 0

\* A statement of a call of initialize_db ran, and the call had found the
\* store at the current schema version when it began.
C40_StepOnCurrent ==
    \E p \in {"main", "terminal_ui"} :
        /\ schema.call[p].pc # "idle"
        /\ schema'.call[p] # schema.call[p]
        /\ schema.call[p].began_current

\* C40: initialize_db changes no download row and no metadata value of a
\* store that is at the current schema version, however often and from
\* however many processes it is called; a call on an outdated store drops
\* the resource rows, sets last_fetch_time to 0 and records the current
\* schema version, after which a call is a no-op and a full sync fetches
\* every special and dependency id.
C40_InitializeIdempotent ==
    /\ [][C40_StepOnCurrent =>
             /\ downloads' = downloads
             /\ last_fetch_time' = last_fetch_time
             /\ schema'.version = schema.version]_vars
    /\ [](\A p \in {"main", "terminal_ui"} :
             LET c == schema.call[p]
             IN  c.alone =>
                   /\ c.pc # "raised"
                   /\ (c.pc \in {"tables", "done"} /\ ~c.began_current) =>
                         /\ c.did_reset
                         /\ schema.metadata /\ schema.column
                         /\ schema.version = 1
                   /\ (c.pc = "tables" /\ c.did_reset) =>
                         downloads = {} /\ last_fetch_time = 0
                   /\ c.pc = "done" => schema.table
                   /\ (c.pc = "done" /\ c.did_reset
                         /\ downloads = {} /\ last_fetch_time = 0) =>
                         IdsToFetch(downloads, last_fetch_time,
                                    special_resources, FullScope, last_update)
                            = {R151, R153, R1865})

====
